---- MODULE Spec2Model ----
(***************************************************************************)
(* InboxPilot: ingestion, rule-based classification, AI-backed category   *)
(* suggestion and the AI audit log, modelled from src/src/inboxpilot.      *)
(*                                                                         *)
(* Text is a sequence of ASCII codes, so that lower(), strip(),            *)
(* lstrip("-"), splitlines(), re.split(r"\W+") and the "in" operator are   *)
(* computed the way Python computes them.  Every store method opens its    *)
(* own connection (sqlite_store.py:774-786), so cursor.lastrowid starts    *)
(* at 0 in every call.                                                     *)
(***************************************************************************)
EXTENDS Integers, Sequences, FiniteSets, TLC

VARIABLES
    messages,      \* table messages, in id order
    categories,    \* table categories, in id order
    ai_requests,   \* table ai_requests, in id order
    ai_responses,  \* table ai_responses, in id order
    tasks,         \* table tasks, in id order
    notes,         \* table notes, in id order
    transcripts,   \* table meeting_transcripts: meeting_id -> content
    meetings,      \* table meetings, in id order
    category_assignments, \* table category_assignments, in insertion order
    oauth_tokens,  \* table oauth_tokens, in id order
    connections,   \* table connections, in id order
    oauth_states,  \* app.state.oauth_states: the state tokens registered
    now,           \* datetime.utcnow(), in seconds
    sqlite_sequence, \* table sqlite_sequence: the last id AUTOINCREMENT gave out
    provider,      \* AppConfig.ai_provider
    gateway_budget, \* the gateway invocations a behaviour may make
    call,          \* per user: the service call in progress and its locals
    invocations    \* history of AiProvider.generate_text calls

vars == <<messages, categories, ai_requests, ai_responses, tasks, notes,
          transcripts, meetings, category_assignments, oauth_tokens, connections,
          oauth_states, now, sqlite_sequence, provider, gateway_budget, call, invocations>>

store == <<messages, categories, ai_requests, ai_responses, tasks, notes,
           transcripts, meetings, category_assignments, oauth_tokens, connections,
           oauth_states, now, sqlite_sequence>>

----------------------------------------------------------------------------
(* Bounds *)

MaxBatch == 2        \* longest batch handed to ingest_messages
MaxCategories == 2   \* rows of table categories
MaxAiCalls == 1      \* gateway invocations in one behaviour
MaxRowId == 3        \* largest id AUTOINCREMENT hands out
MaxCandidates == 2   \* longest category list handed to the classifier alone
MaxKeywords == 2     \* longest triage keyword list
MaxLimit == 2        \* largest limit handed to rank_messages

Users == {1, 2}

----------------------------------------------------------------------------
(* Python str operations on sequences of ASCII codes *)

\* None in place of a text (no text holds the code -1)
None == <<-1>>

\* None in place of a row
NoRow == [id |-> 0]

Min(a, b) == IF a < b THEN a ELSE b

Max(a, b) == IF a > b THEN a ELSE b

\* str.lower() on one character
LowerChar(c) == IF c \in 65..90 THEN c + 32 ELSE c

\* str.lower()
Lower(s) == [i \in 1..Len(s) |-> LowerChar(s[i])]

\* whitespace removed by str.strip(): \t \n \v \f \r FS GS RS US space
IsSpace(c) == c \in {9, 10, 11, 12, 13, 28, 29, 30, 31, 32}

\* characters matched by \w
IsWord(c) == c \in (48..57) \cup (65..90) \cup {95} \cup (97..122)

\* line boundaries of str.splitlines(): \n \v \f \r FS GS RS
IsLineBreak(c) == c \in {10, 11, 12, 13, 28, 29, 30}

RECURSIVE LStrip(_)
LStrip(s) ==
    IF s # <<>> /\ IsSpace(Head(s)) THEN LStrip(Tail(s)) ELSE s

RECURSIVE RStrip(_)
RStrip(s) ==
    IF s # <<>> /\ IsSpace(s[Len(s)]) THEN RStrip(SubSeq(s, 1, Len(s) - 1)) ELSE s

\* str.strip()
Strip(s) == RStrip(LStrip(s))

\* str.lstrip("-")
RECURSIVE LStripDash(_)
LStripDash(s) ==
    IF s # <<>> /\ Head(s) = 45 THEN LStripDash(Tail(s)) ELSE s

\* str.splitlines(): the text up to each line boundary, "\r\n" being one
\* boundary; a text that ends in a boundary has no empty last line
RECURSIVE SplitLines(_)
SplitLines(s) ==
    IF s = <<>> THEN <<>>
    ELSE IF \E i \in DOMAIN s : IsLineBreak(s[i])
    THEN LET i == CHOOSE k \in DOMAIN s :
                      IsLineBreak(s[k]) /\ \A j \in 1..(k - 1) : ~IsLineBreak(s[j])
             width == IF s[i] = 13 /\ i < Len(s) /\ s[i + 1] = 10 THEN 2 ELSE 1
         IN  <<SubSeq(s, 1, i - 1)>> \o SplitLines(SubSeq(s, i + width, Len(s)))
    ELSE <<s>>

\* re.split(r"\W+", s): the pieces between maximal runs of non-word
\* characters, empty first and last pieces included
RECURSIVE ReSplitFrom(_, _, _, _)
ReSplitFrom(s, i, cur, out) ==
    IF i > Len(s) THEN Append(out, cur)
    ELSE IF IsWord(s[i])
         THEN ReSplitFrom(s, i + 1, Append(cur, s[i]), out)
         ELSE IF i > 1 /\ ~IsWord(s[i - 1])
              THEN ReSplitFrom(s, i + 1, cur, out)
              ELSE ReSplitFrom(s, i + 1, <<>>, Append(out, cur))

ReSplit(s) == ReSplitFrom(s, 1, <<>>, <<>>)

\* needle in haystack
Contains(haystack, needle) ==
    \E k \in 0..(Len(haystack) - Len(needle)) :
        SubSeq(haystack, k + 1, k + Len(needle)) = needle

\* s[:n]
Prefix(s, n) == SubSeq(s, 1, Min(n, Len(s)))

\* sep.join(parts)
RECURSIVE Join(_, _)
Join(sep, parts) ==
    IF parts = <<>> THEN <<>>
    ELSE IF Len(parts) = 1 THEN parts[1]
    ELSE parts[1] \o sep \o Join(sep, Tail(parts))

Range(f) == {f[i] : i \in DOMAIN f}

----------------------------------------------------------------------------
(* Input pools *)

\* "Pay"
TxtPay == <<80, 97, 121>>
\* "pay"
TxtPayLower == <<112, 97, 121>>
\* "Hr"
TxtHr == <<72, 114>>
\* "tax due"
TxtTaxDue == <<116, 97, 120, 32, 100, 117, 101>>
\* "Payday"
TxtPayday == <<80, 97, 121, 100, 97, 121>>
\* "Re"
TxtRe == <<82, 101>>
\* "tax"
TxtTax == <<116, 97, 120>>
\* "x@y"
TxtSender == <<120, 64, 121>>

MsgA == [provider_message_id |-> "a", subject |-> TxtPayday, sender |-> TxtSender,
         recipients |-> "to", timestamp |-> 2, snippet |-> TxtPay, body |-> <<>>]

MsgB == [provider_message_id |-> "b", subject |-> TxtRe, sender |-> TxtSender,
         recipients |-> "to", timestamp |-> 1, snippet |-> TxtRe, body |-> TxtTax]

\* the provider id of MsgA again, every other field different
MsgA2 == [provider_message_id |-> "a", subject |-> TxtRe, sender |-> TxtHr,
          recipients |-> "cc", timestamp |-> 3, snippet |-> TxtTax, body |-> TxtTax]

MeetingA == [provider_event_id |-> "ev1", title |-> "standup", participants |-> "p",
             start_time |-> 1, end_time |-> 2, transcript_ref |-> "none"]
MeetingB == [provider_event_id |-> "ev2", title |-> "review", participants |-> "p",
             start_time |-> 2, end_time |-> 3, transcript_ref |-> "none"]
MeetingBatches == {<<MeetingA>>, <<MeetingB>>, <<MeetingA, MeetingB>>}

MessagePool == {MsgA, MsgB, MsgA2}

\* "-"
TxtDash == <<45>>
\* "A1 b"
TxtA1b == <<65, 49, 32, 98>>
\* "x,Re!"
TxtXRe == <<120, 44, 82, 101, 33>>
\* "TAX due?"
TxtTaxDueUpper == <<84, 65, 88, 32, 100, 117, 101, 63>>
\* "a1"
TxtA1 == <<97, 49>>

\* "Select the most relevant categories for the email. Respond with one
\* category name per line from the provided list.\n\nAvailable categories:\n"
SuggestPromptHead ==
    <<83, 101, 108, 101, 99, 116, 32, 116, 104, 101, 32, 109, 111, 115, 116,
      32, 114, 101, 108, 101, 118, 97, 110, 116, 32, 99, 97, 116, 101, 103,
      111, 114, 105, 101, 115, 32, 102, 111, 114, 32, 116, 104, 101, 32, 101,
      109, 97, 105, 108, 46, 32, 82, 101, 115, 112, 111, 110, 100, 32, 119,
      105, 116, 104, 32, 111, 110, 101, 32, 99, 97, 116, 101, 103, 111, 114,
      121, 32, 110, 97, 109, 101, 32, 112, 101, 114, 32, 108, 105, 110, 101,
      32, 102, 114, 111, 109, 32, 116, 104, 101, 32, 112, 114, 111, 118, 105,
      100, 101, 100, 32, 108, 105, 115, 116, 46, 10, 10, 65, 118, 97, 105,
      108, 97, 98, 108, 101, 32, 99, 97, 116, 101, 103, 111, 114, 105, 101,
      115, 58, 10>>

\* "Email subject: "
TxtEmailSubject ==
    <<69, 109, 97, 105, 108, 32, 115, 117, 98, 106, 101, 99, 116, 58, 32>>

\* "Email body: "
TxtEmailBody ==
    <<69, 109, 97, 105, 108, 32, 98, 111, 100, 121, 58, 32>>

\* "[mock:"
TxtMockOpen ==
    <<91, 109, 111, 99, 107, 58>>

\* "] "
TxtMockClose ==
    <<93, 32>>

\* "category_suggestion"
TxtCategorySuggestion ==
    <<99, 97, 116, 101, 103, 111, 114, 121, 95, 115, 117, 103, 103, 101, 115,
      116, 105, 111, 110>>

\* "- "
TxtDashSpace ==
    <<45, 32>>

\* "- Pay\npayx\nHR"
ReplyPayHr ==
    <<45, 32, 80, 97, 121, 10, 112, 97, 121, 120, 10, 72, 82>>

\* "payx"
ReplyPayx ==
    <<112, 97, 121, 120>>

\* " - hr \r\n\nnone"
ReplyHrPadded ==
    <<32, 45, 32, 104, 114, 32, 13, 10, 10, 110, 111, 110, 101>>

\* replies of a networked provider to a category_suggestion prompt
SuggestionReplies == {ReplyPayHr, ReplyPayx, ReplyHrPadded, <<>>}

\* the prompts and purposes of the other operations that call the gateway
\* "Answer the user question using the message and meeting context.\n\nQuestion: "
AnswerPromptHead ==
    <<65, 110, 115, 119, 101, 114, 32, 116, 104, 101, 32, 117, 115, 101, 114,
      32, 113, 117, 101, 115, 116, 105, 111, 110, 32, 117, 115, 105, 110,
      103, 32, 116, 104, 101, 32, 109, 101, 115, 115, 97, 103, 101, 32, 97,
      110, 100, 32, 109, 101, 101, 116, 105, 110, 103, 32, 99, 111, 110, 116,
      101, 120, 116, 46, 10, 10, 81, 117, 101, 115, 116, 105, 111, 110, 58,
      32>>

\* "\n\nContext:\n"
TxtContext ==
    <<10, 10, 67, 111, 110, 116, 101, 120, 116, 58, 10>>

\* "Draft a helpful reply. Do not send the email.\n\nEmail from: "
DraftPromptHead ==
    <<68, 114, 97, 102, 116, 32, 97, 32, 104, 101, 108, 112, 102, 117, 108,
      32, 114, 101, 112, 108, 121, 46, 32, 68, 111, 32, 110, 111, 116, 32,
      115, 101, 110, 100, 32, 116, 104, 101, 32, 101, 109, 97, 105, 108, 46,
      10, 10, 69, 109, 97, 105, 108, 32, 102, 114, 111, 109, 58, 32>>

\* "\nSubject: "
TxtSubjectLine ==
    <<10, 83, 117, 98, 106, 101, 99, 116, 58, 32>>

\* "\nBody: "
TxtBodyLine ==
    <<10, 66, 111, 100, 121, 58, 32>>

\* "\n\nUser instructions: "
TxtUserInstructions ==
    <<10, 10, 85, 115, 101, 114, 32, 105, 110, 115, 116, 114, 117, 99, 116,
      105, 111, 110, 115, 58, 32>>

\* "Summarize the email with key points and any requested actions.\n\nFrom: "
SummaryPromptHead ==
    <<83, 117, 109, 109, 97, 114, 105, 122, 101, 32, 116, 104, 101, 32, 101,
      109, 97, 105, 108, 32, 119, 105, 116, 104, 32, 107, 101, 121, 32, 112,
      111, 105, 110, 116, 115, 32, 97, 110, 100, 32, 97, 110, 121, 32, 114,
      101, 113, 117, 101, 115, 116, 101, 100, 32, 97, 99, 116, 105, 111, 110,
      115, 46, 10, 10, 70, 114, 111, 109, 58, 32>>

\* "Suggest a follow-up action for the email. Keep it brief.\n\nFrom: "
FollowUpPromptHead ==
    <<83, 117, 103, 103, 101, 115, 116, 32, 97, 32, 102, 111, 108, 108, 111,
      119, 45, 117, 112, 32, 97, 99, 116, 105, 111, 110, 32, 102, 111, 114,
      32, 116, 104, 101, 32, 101, 109, 97, 105, 108, 46, 32, 75, 101, 101,
      112, 32, 105, 116, 32, 98, 114, 105, 101, 102, 46, 10, 10, 70, 114,
      111, 109, 58, 32>>

\* "Extract action items from the email. Respond with one task per line.\n\nSubject: "
ExtractPromptHead ==
    <<69, 120, 116, 114, 97, 99, 116, 32, 97, 99, 116, 105, 111, 110, 32,
      105, 116, 101, 109, 115, 32, 102, 114, 111, 109, 32, 116, 104, 101, 32,
      101, 109, 97, 105, 108, 46, 32, 82, 101, 115, 112, 111, 110, 100, 32,
      119, 105, 116, 104, 32, 111, 110, 101, 32, 116, 97, 115, 107, 32, 112,
      101, 114, 32, 108, 105, 110, 101, 46, 10, 10, 83, 117, 98, 106, 101,
      99, 116, 58, 32>>

\* "\nFrom: "
TxtFromLine ==
    <<10, 70, 114, 111, 109, 58, 32>>

\* "Extract action items from the meeting transcript. Respond with one task per line.\n\nTranscript:\n"
MeetingExtractPromptHead ==
    <<69, 120, 116, 114, 97, 99, 116, 32, 97, 99, 116, 105, 111, 110, 32,
      105, 116, 101, 109, 115, 32, 102, 114, 111, 109, 32, 116, 104, 101, 32,
      109, 101, 101, 116, 105, 110, 103, 32, 116, 114, 97, 110, 115, 99, 114,
      105, 112, 116, 46, 32, 82, 101, 115, 112, 111, 110, 100, 32, 119, 105,
      116, 104, 32, 111, 110, 101, 32, 116, 97, 115, 107, 32, 112, 101, 114,
      32, 108, 105, 110, 101, 46, 10, 10, 84, 114, 97, 110, 115, 99, 114,
      105, 112, 116, 58, 10>>

\* "Summarize the meeting transcript with key decisions and next steps.\n\nTranscript:\n"
MeetingSummaryPromptHead ==
    <<83, 117, 109, 109, 97, 114, 105, 122, 101, 32, 116, 104, 101, 32, 109,
      101, 101, 116, 105, 110, 103, 32, 116, 114, 97, 110, 115, 99, 114, 105,
      112, 116, 32, 119, 105, 116, 104, 32, 107, 101, 121, 32, 100, 101, 99,
      105, 115, 105, 111, 110, 115, 32, 97, 110, 100, 32, 110, 101, 120, 116,
      32, 115, 116, 101, 112, 115, 46, 10, 10, 84, 114, 97, 110, 115, 99,
      114, 105, 112, 116, 58, 10>>

\* "ID: "
TxtIdLine ==
    <<73, 68, 58, 32>>

\* "\nSnippet: "
TxtSnippetLine ==
    <<10, 83, 110, 105, 112, 112, 101, 116, 58, 32>>

\* "answer"
TxtAnswer ==
    <<97, 110, 115, 119, 101, 114>>

\* "draft"
TxtDraft ==
    <<100, 114, 97, 102, 116>>

\* "message_summary"
TxtMessageSummary ==
    <<109, 101, 115, 115, 97, 103, 101, 95, 115, 117, 109, 109, 97, 114, 121>>

\* "follow_up"
TxtFollowUp ==
    <<102, 111, 108, 108, 111, 119, 95, 117, 112>>

\* "extract_tasks"
TxtExtractTasks ==
    <<101, 120, 116, 114, 97, 99, 116, 95, 116, 97, 115, 107, 115>>

\* "meeting_summary"
TxtMeetingSummary ==
    <<109, 101, 101, 116, 105, 110, 103, 95, 115, 117, 109, 109, 97, 114,
      121>>

\* "- Send\n\n--\n Call "
ReplySendCall ==
    <<45, 32, 83, 101, 110, 100, 10, 10, 45, 45, 10, 32, 67, 97, 108, 108,
      32>>

\* "ok"
ReplyOk ==
    <<111, 107>>

\* "we met"
TxtTranscript ==
    <<119, 101, 32, 109, 101, 116>>

\* "brief"
TxtBrief ==
    <<98, 114, 105, 101, 102>>

\* "a"
TxtA == <<97>>

\* what a networked provider may answer to the other purposes
GeneralReplies == {ReplySendCall, ReplyOk, <<>>}

\* " - -"
ReplyDashes == <<32, 45, 32, 45>>

\* what a networked provider may answer to a request for tasks
ExtractReplies == GeneralReplies \cup {ReplyDashes}

CatPay == [name |-> TxtPay, description |-> TxtTaxDue]

CatPayLower == [name |-> TxtPayLower, description |-> None]

CatHr == [name |-> TxtHr, description |-> None]

CategoryPool == {CatPay, CatPayLower, CatHr}

SingleBatches(pool) == {<<m>> : m \in pool}

\* inputs of the classifier taken on its own
\* a name with a description, a name alone, a name and a description that
\* are punctuation at the ends, an empty description, two words in a name
ClassifierCategories ==
    {CatPay, CatPayLower, CatHr,
     [name |-> TxtDash, description |-> None],
     [name |-> TxtHr, description |-> TxtXRe],
     [name |-> TxtA1b, description |-> <<>>]}

ClassifierSubjects == {TxtPayday, TxtRe, <<>>}

ClassifierBodies == {<<>>, TxtTaxDueUpper, TxtA1}

ClassifierMessages ==
    {[MsgA EXCEPT !.subject = sb, !.body = bd] :
        sb \in ClassifierSubjects, bd \in ClassifierBodies}

CandidateLists == UNION {[1..n -> ClassifierCategories] : n \in 0..MaxCandidates}

Batches(pool) == UNION {[1..n -> pool] : n \in 1..MaxBatch}

----------------------------------------------------------------------------
(* SqliteStore *)

RowIds(table) == {table[i].id : i \in DOMAIN table}

\* SELECT id FROM messages WHERE provider_message_id = ?  (0: no row)
message_id_by_provider_id(table, pid) ==
    IF \E i \in DOMAIN table : table[i].provider_message_id = pid
    THEN table[CHOOSE i \in DOMAIN table : table[i].provider_message_id = pid].id
    ELSE 0

\* the row INSERT OR IGNORE INTO messages adds
message_row(id, message, user_id) ==
    [id |-> id, user_id |-> user_id,
     provider_message_id |-> message.provider_message_id,
     subject |-> message.subject, sender |-> message.sender,
     recipients |-> message.recipients, timestamp |-> message.timestamp,
     snippet |-> message.snippet, body |-> message.body]

\* cursor.lastrowid after INSERT OR IGNORE: the id of the inserted row, or,
\* when the insert was ignored, whatever the connection inserted last
lastrowid_after_insert(inserted, newid, lastrowid) ==
    IF inserted THEN newid ELSE lastrowid

\* the loop with INSERT OR REPLACE: a stored provider_message_id takes the
\* fields and the owner of the message that comes again
RECURSIVE save_messages_loop_replacing(_, _, _, _, _, _)
save_messages_loop_replacing(table, seq, batch, user_id, lastrowid, ids) ==
    IF batch = <<>> THEN [table |-> table, seq |-> seq, ids |-> ids]
    ELSE LET message == Head(batch)
             existing == message_id_by_provider_id(table, message.provider_message_id)
             newid == seq + 1
             table2 == IF existing = 0
                       THEN Append(table, message_row(newid, message, user_id))
                       ELSE [i \in DOMAIN table |->
                                IF table[i].id = existing
                                THEN message_row(existing, message, user_id)
                                ELSE table[i]]
             id == IF existing = 0 THEN newid ELSE existing
         IN  save_messages_loop_replacing(table2, newid, Tail(batch), user_id, id,
                                          Append(ids, id))

\* SqliteStore.save_messages: the loop over the batch, on one connection.
\* An AUTOINCREMENT table takes the next id from sqlite_sequence on every
\* INSERT OR IGNORE, the ignored ones included.
RECURSIVE save_messages_loop(_, _, _, _, _, _)
save_messages_loop(table, seq, batch, user_id, lastrowid, ids) ==
    IF batch = <<>> THEN [table |-> table, seq |-> seq, ids |-> ids]
    ELSE LET message == Head(batch)
             existing == message_id_by_provider_id(table, message.provider_message_id)
             inserted == existing = 0
             newid == seq + 1
             table2 == IF inserted
                       THEN Append(table, message_row(newid, message, user_id))
                       ELSE table
             last2 == lastrowid_after_insert(inserted, newid, lastrowid)
             ids2 == IF last2 # 0 THEN Append(ids, last2)
                     ELSE IF existing # 0 THEN Append(ids, existing)
                     ELSE ids
         IN  save_messages_loop(table2, newid, Tail(batch), user_id, last2, ids2)

save_messages(table, seq, batch, user_id) ==
    save_messages_loop(table, seq, batch, user_id, 0, <<>>)

\* SELECT id FROM meetings WHERE provider_event_id = ?  (0: no row)
meeting_id_by_event_id(table, eid) ==
    IF \E i \in DOMAIN table : table[i].provider_event_id = eid
    THEN table[CHOOSE i \in DOMAIN table : table[i].provider_event_id = eid].id
    ELSE 0

\* the row INSERT OR IGNORE INTO meetings adds
meeting_row(id, meeting, user_id) ==
    [id |-> id, user_id |-> user_id,
     provider_event_id |-> meeting.provider_event_id, title |-> meeting.title,
     participants |-> meeting.participants, start_time |-> meeting.start_time,
     end_time |-> meeting.end_time, transcript_ref |-> meeting.transcript_ref]

\* SqliteStore.save_meetings: the loop over the batch, on one connection;
\* provider_event_id is UNIQUE over all users
RECURSIVE save_meetings_loop(_, _, _, _, _, _)
save_meetings_loop(table, seq, batch, user_id, lastrowid, ids) ==
    IF batch = <<>> THEN [table |-> table, seq |-> seq, ids |-> ids]
    ELSE LET meeting == Head(batch)
             existing == meeting_id_by_event_id(table, meeting.provider_event_id)
             inserted == existing = 0
             newid == seq + 1
             table2 == IF inserted
                       THEN Append(table, meeting_row(newid, meeting, user_id))
                       ELSE table
             last2 == lastrowid_after_insert(inserted, newid, lastrowid)
             ids2 == IF last2 # 0 THEN Append(ids, last2)
                     ELSE IF existing # 0 THEN Append(ids, existing)
                     ELSE ids
         IN  save_meetings_loop(table2, newid, Tail(batch), user_id, last2, ids2)

save_meetings(table, seq, batch, user_id) ==
    save_meetings_loop(table, seq, batch, user_id, 0, <<>>)

\* get_message without the user_id filter
get_message_any_user(message_id, user_id) ==
    IF \E i \in DOMAIN messages : messages[i].id = message_id
    THEN messages[CHOOSE i \in DOMAIN messages : messages[i].id = message_id]
    ELSE NoRow

\* SqliteStore.get_message with a user id: None when no row matches
get_message(message_id, user_id) ==
    IF \E i \in DOMAIN messages :
           messages[i].id = message_id /\ messages[i].user_id = user_id
    THEN messages[CHOOSE i \in DOMAIN messages :
                      messages[i].id = message_id /\ messages[i].user_id = user_id]
    ELSE NoRow

\* SELECT id FROM categories WHERE name = ? and fetchone(): the lookup has
\* no user_id; the rows come off the unique index on (name, user_id), the
\* smallest user_id first  (0: no row)
category_id_by_name(table, name) ==
    IF \E i \in DOMAIN table : table[i].name = name
    THEN table[CHOOSE i \in DOMAIN table :
                   /\ table[i].name = name
                   /\ \A j \in DOMAIN table :
                          table[j].name = name => table[i].user_id <= table[j].user_id].id
    ELSE 0

\* SqliteStore.create_category: INSERT OR IGNORE under UNIQUE(name, user_id)
store_create_category(table, seq, category, user_id) ==
    LET inserted == ~\E i \in DOMAIN table :
                        table[i].name = category.name /\ table[i].user_id = user_id
        newid == seq + 1
        row == [id |-> newid, user_id |-> user_id, name |-> category.name,
                description |-> category.description]
        lastrowid == lastrowid_after_insert(inserted, newid, 0)
    IN  [table |-> IF inserted THEN Append(table, row) ELSE table,
         seq |-> newid,
         id |-> IF lastrowid # 0 THEN lastrowid
                ELSE category_id_by_name(table, category.name)]

\* a < b in the BINARY collation
LexLess(a, b) ==
    \E k \in 1..(Min(Len(a), Len(b)) + 1) :
        /\ \A i \in 1..(k - 1) : a[i] = b[i]
        /\ IF k > Len(a) THEN k <= Len(b)
           ELSE k <= Len(b) /\ a[k] < b[k]

\* ORDER BY name
RECURSIVE order_by_name(_)
order_by_name(rows) ==
    IF rows = {} THEN <<>>
    ELSE LET first == CHOOSE r \in rows :
                          \A q \in rows : q = r \/ q.name = r.name \/ LexLess(r.name, q.name)
         IN  <<first>> \o order_by_name(rows \ {first})

\* list_categories without the user_id filter
list_categories_all_users(user_id) ==
    order_by_name({categories[i] : i \in DOMAIN categories})

\* SqliteStore.list_categories with a user id
list_categories(user_id) ==
    order_by_name({categories[i] : i \in {j \in DOMAIN categories :
                                              categories[j].user_id = user_id}})

\* INSERT INTO category_assignments without OR IGNORE and without the key
store_assign_category_always(table, message_id, category_id) ==
    Append(table, [message_id |-> message_id, category_id |-> category_id])

\* SqliteStore.assign_category: INSERT OR IGNORE under
\* PRIMARY KEY (message_id, category_id)
store_assign_category(table, message_id, category_id) ==
    IF \E i \in DOMAIN table :
           table[i].message_id = message_id /\ table[i].category_id = category_id
    THEN table
    ELSE Append(table, [message_id |-> message_id, category_id |-> category_id])

\* SqliteStore.list_message_categories: categories JOIN category_assignments
\* WHERE ca.message_id = ? ORDER BY c.name
list_message_categories(message_id) ==
    order_by_name({categories[j] : j \in {k \in DOMAIN categories :
        \E i \in DOMAIN category_assignments :
            /\ category_assignments[i].message_id = message_id
            /\ category_assignments[i].category_id = categories[k].id}})

\* the oauth_tokens row of a user for a provider, or NoRow
get_oauth_token(table, user_id, provider_name) ==
    IF \E i \in DOMAIN table :
           table[i].user_id = user_id /\ table[i].provider_name = provider_name
    THEN table[CHOOSE i \in DOMAIN table :
                   table[i].user_id = user_id /\ table[i].provider_name = provider_name]
    ELSE NoRow

\* one row per user and provider: the tokens of a later call replace those of
\* an earlier one, and the row keeps its id
upsert_oauth_token(table, user_id, provider_name, access_token, refresh_token, expires_at) ==
    LET stored == get_oauth_token(table, user_id, provider_name)
        row == [id |-> IF stored.id = 0 THEN Len(table) + 1 ELSE stored.id,
                user_id |-> user_id, provider_name |-> provider_name,
                access_token |-> access_token, refresh_token |-> refresh_token,
                expires_at |-> expires_at]
    IN  IF stored.id = 0
        THEN Append(table, row)
        ELSE [i \in DOMAIN table |-> IF table[i].id = stored.id THEN row ELSE table[i]]

\* the row SqliteStore.add_connection inserts; its id is cursor.lastrowid
connection_row(table, user_id, provider_type, provider_name, status, created_at, details) ==
    [id |-> Len(table) + 1, user_id |-> user_id, provider_type |-> provider_type,
     provider_name |-> provider_name, status |-> status, created_at |-> created_at,
     details |-> details]

\* subject LIKE '%query%': ASCII letters compare without case; the queries
\* of the pools hold neither % nor _
like_contains(text, query) == Contains(Lower(text), Lower(query))

\* ORDER BY timestamp DESC  (the timestamps of the pools are distinct)
RECURSIVE order_by_timestamp_desc(_)
order_by_timestamp_desc(rows) ==
    IF rows = <<>> THEN <<>>
    ELSE LET i == CHOOSE i \in DOMAIN rows :
                      \A j \in DOMAIN rows :
                          \/ rows[j].timestamp < rows[i].timestamp
                          \/ rows[j].timestamp = rows[i].timestamp /\ i <= j
         IN  <<rows[i]>> \o order_by_timestamp_desc(SubSeq(rows, 1, i - 1)
                                                     \o SubSeq(rows, i + 1, Len(rows)))

\* SqliteStore.search_messages with a user id
search_messages(query, limit, user_id) ==
    Prefix(order_by_timestamp_desc(
               SelectSeq(messages, LAMBDA row :
                   /\ row.user_id = user_id
                   /\ \/ like_contains(row.subject, query)
                      \/ like_contains(row.body, query))),
           limit)

\* SqliteStore.search_meetings: no meeting is stored in these behaviours
search_meetings(query, limit, user_id) == <<>>

\* the row of a note that keeps the first line of the content only
note_row_first_line(table, user_id, parent_type, parent_id, content) ==
    [id |-> Len(table) + 1, user_id |-> user_id, parent_type |-> parent_type,
     parent_id |-> parent_id,
     content |-> IF SplitLines(content) = <<>> THEN <<>> ELSE Head(SplitLines(content))]

\* the row SqliteStore.add_note inserts; its id is cursor.lastrowid
note_row(table, user_id, parent_type, parent_id, content) ==
    [id |-> Len(table) + 1, user_id |-> user_id, parent_type |-> parent_type,
     parent_id |-> parent_id, content |-> content]

\* SqliteStore.list_notes with a user id: Note(parent_type, parent_id, content)
\* of each selected row
store_list_notes(parent_type, parent_id, user_id) ==
    LET rows == SelectSeq(notes, LAMBDA row : /\ row.parent_type = parent_type
                                              /\ row.parent_id = parent_id
                                              /\ row.user_id = user_id)
    IN  [i \in DOMAIN rows |-> [parent_type |-> rows[i].parent_type,
                                parent_id |-> rows[i].parent_id,
                                content |-> rows[i].content]]

\* Task(...).status when the caller gives none
TaskDefaultStatus == "open"

\* the row SqliteStore.add_task inserts; its id is cursor.lastrowid
task_row(table, user_id, parent_type, parent_id, description) ==
    [id |-> Len(table) + 1, user_id |-> user_id, parent_type |-> parent_type,
     parent_id |-> parent_id, description |-> description,
     status |-> TaskDefaultStatus, due_date |-> None]

\* list_tasks without the user_id filter
store_list_tasks_any_user(parent_type, parent_id, user_id) ==
    LET rows == SelectSeq(tasks, LAMBDA row : /\ row.parent_type = parent_type
                                              /\ row.parent_id = parent_id)
    IN  [i \in DOMAIN rows |-> [id |-> rows[i].id, parent_type |-> rows[i].parent_type,
                                parent_id |-> rows[i].parent_id,
                                description |-> rows[i].description,
                                status |-> rows[i].status, due_date |-> rows[i].due_date]]

\* SqliteStore.list_tasks with a user id, ORDER BY id ASC: StoredTask(id,
\* parent_type, parent_id, description, status, due_date) of each selected row
store_list_tasks(parent_type, parent_id, user_id) ==
    LET rows == SelectSeq(tasks, LAMBDA row : /\ row.parent_type = parent_type
                                              /\ row.parent_id = parent_id
                                              /\ row.user_id = user_id)
    IN  [i \in DOMAIN rows |-> [id |-> rows[i].id, parent_type |-> rows[i].parent_type,
                                parent_id |-> rows[i].parent_id,
                                description |-> rows[i].description,
                                status |-> rows[i].status, due_date |-> rows[i].due_date]]

\* SqliteStore.save_meeting_transcript: INSERT ... ON CONFLICT(meeting_id)
\* DO UPDATE SET content
save_meeting_transcript(table, meeting_id, content) ==
    IF \E i \in DOMAIN table : table[i].meeting_id = meeting_id
    THEN [i \in DOMAIN table |->
              IF table[i].meeting_id = meeting_id
              THEN [table[i] EXCEPT !.content = content]
              ELSE table[i]]
    ELSE Append(table, [meeting_id |-> meeting_id, content |-> content])

\* SqliteStore.get_meeting_transcript: the lookup has no user_id
get_meeting_transcript(meeting_id) ==
    IF \E i \in DOMAIN transcripts : transcripts[i].meeting_id = meeting_id
    THEN transcripts[CHOOSE i \in DOMAIN transcripts :
                         transcripts[i].meeting_id = meeting_id]
    ELSE NoRow

\* LIMIT ?: a negative limit is no limit
sql_limit(rows, limit) == IF limit < 0 THEN rows ELSE Prefix(rows, limit)

\* SqliteStore.list_messages with a user id
list_messages(limit, user_id) ==
    sql_limit(order_by_timestamp_desc(
                  SelectSeq(messages, LAMBDA row : row.user_id = user_id)),
              limit)

\* len(text) // 4 without the floor of 1
estimate_tokens_unfloored(text) == Len(text) \div 4

\* ai.estimate_tokens
estimate_tokens(text) == Max(1, Len(text) \div 4)

----------------------------------------------------------------------------
(* AiProvider *)

MockPrefixLen == 240

PurposeText(purpose) ==
    CASE purpose = "category_suggestion" -> TxtCategorySuggestion
      [] purpose = "answer" -> TxtAnswer
      [] purpose = "draft" -> TxtDraft
      [] purpose = "message_summary" -> TxtMessageSummary
      [] purpose = "follow_up" -> TxtFollowUp
      [] purpose = "extract_tasks" -> TxtExtractTasks
      [] purpose = "meeting_summary" -> TxtMeetingSummary

\* MockAiProvider.generate_text
mock_generate_text(prompt, purpose) ==
    TxtMockOpen \o PurposeText(purpose) \o TxtMockClose \o Prefix(prompt, MockPrefixLen)

\* the texts a networked provider may answer with
Replies(purpose) ==
    CASE purpose = "category_suggestion" -> SuggestionReplies
      [] purpose = "extract_tasks" -> ExtractReplies
      [] OTHER -> GeneralReplies

\* AppContext.model_name
model_name(p) ==
    CASE p = "openai" -> "openai_model"
      [] p = "ollama" -> "ollama_model"
      [] OTHER -> "mock"

----------------------------------------------------------------------------
(* RuleBasedClassifier *)

\* category.description or ''
description_or_empty(category) ==
    IF category.description = None THEN <<>> ELSE category.description

\* the token list kept whole, empty tokens included
all_tokens(tokens) == tokens

\* [token for token in tokens if token]
nonempty_tokens(tokens) == SelectSeq(tokens, LAMBDA token : token # <<>>)

\* _extract_keywords
extract_keywords(category) ==
    LET text == Lower(category.name \o <<32>> \o description_or_empty(category))
    IN  nonempty_tokens(ReSplit(text))

\* any(keyword in text for keyword in keywords)
any_keyword_in(text, keywords) ==
    \E k \in DOMAIN keywords : Contains(text, keywords[k])

\* f"{message.subject} {message.body}".lower()
search_text(message) == Lower(message.subject \o <<32>> \o message.body)

\* RuleBasedClassifier.suggest: the loop over the categories
RECURSIVE suggest_loop(_, _, _)
suggest_loop(text, cats, suggestions) ==
    IF cats = <<>> THEN suggestions
    ELSE suggest_loop(text, Tail(cats),
                      IF any_keyword_in(text, extract_keywords(Head(cats)))
                      THEN Append(suggestions, Head(cats))
                      ELSE suggestions)

suggest(message, cats) == suggest_loop(search_text(message), cats, <<>>)

----------------------------------------------------------------------------
(* Service calls *)

Idle == [pc |-> "idle", op |-> "none", arg |-> 0, status |-> "none",
         value |-> <<>>, message |-> NoRow, categories |-> <<>>,
         purpose |-> "none", prompt |-> <<>>, text |-> <<>>, request_id |-> 0,
         batch |-> <<>>, lastrowid |-> 0, locked |-> FALSE]

Done(op, arg, status, value) ==
    [Idle EXCEPT !.pc = "done", !.op = op, !.arg = arg, !.status = status,
                 !.value = value]

\* IngestionService.ingest_messages
ingest_messages(u, batch) ==
    /\ call[u].pc = "idle"
    /\ sqlite_sequence.messages + Len(batch) <= MaxRowId
    /\ LET saved == save_messages(messages, sqlite_sequence.messages, batch, u)
       IN  /\ messages' = saved.table
           /\ sqlite_sequence' = [sqlite_sequence EXCEPT !.messages = saved.seq]
           /\ call' = [call EXCEPT ![u] = Done("ingest_messages", batch, "ok", saved.ids)]
    /\ UNCHANGED <<category_assignments, oauth_tokens, connections, oauth_states, now,
                   meetings, categories, ai_requests, ai_responses, tasks, notes,
                   transcripts, provider, gateway_budget, invocations>>

\* MeetingService.ingest_meetings
ingest_meetings(u, batch) ==
    /\ call[u].pc = "idle"
    /\ sqlite_sequence.meetings + Len(batch) <= MaxRowId
    /\ LET saved == save_meetings(meetings, sqlite_sequence.meetings, batch, u)
       IN  /\ meetings' = saved.table
           /\ sqlite_sequence' = [sqlite_sequence EXCEPT !.meetings = saved.seq]
           /\ call' = [call EXCEPT ![u] = Done("ingest_meetings", batch, "ok", saved.ids)]
    /\ UNCHANGED <<category_assignments, oauth_tokens, connections, oauth_states, now,
                   messages, categories, ai_requests, ai_responses, tasks, notes,
                   transcripts, provider, gateway_budget, invocations>>

\* no other connection is inside a write transaction: a statement that
\* writes waits for the RESERVED lock of the database file
WriteLockFree(u) == \A v \in Users \ {u} : ~call[v].locked

\* IngestionService.ingest_messages, statement by statement on its own
\* connection: the call opens the connection and enters the loop
ingest_messages_call(u, batch) ==
    /\ call[u].pc = "idle"
    /\ call' = [call EXCEPT ![u] =
                   [Idle EXCEPT !.pc = IF batch = <<>> THEN "commit" ELSE "insert",
                                !.op = "ingest_messages", !.arg = batch, !.batch = batch]]
    /\ UNCHANGED <<store, provider, gateway_budget, invocations>>

\* the statement after the one that handled Head(batch)
StatementAfter(c, lastrowid, ids) ==
    [c EXCEPT !.pc = IF Tail(c.batch) = <<>> THEN "commit" ELSE "insert",
              !.batch = Tail(c.batch), !.lastrowid = lastrowid, !.value = ids,
              !.locked = TRUE]

\* cursor.execute(INSERT OR IGNORE INTO messages ...) and the test of
\* cursor.lastrowid; the statement opens the write transaction
execute_insert(u) ==
    /\ call[u].pc = "insert"
    /\ WriteLockFree(u)
    /\ sqlite_sequence.messages < MaxRowId
    /\ LET message == Head(call[u].batch)
           existing == message_id_by_provider_id(messages, message.provider_message_id)
           inserted == existing = 0
           newid == sqlite_sequence.messages + 1
           lastrowid == lastrowid_after_insert(inserted, newid, call[u].lastrowid)
       IN  /\ messages' = IF inserted THEN Append(messages, message_row(newid, message, u))
                          ELSE messages
           /\ sqlite_sequence' = [sqlite_sequence EXCEPT !.messages = newid]
           /\ call' = [call EXCEPT ![u] =
                          IF lastrowid # 0
                          THEN StatementAfter(call[u], lastrowid, Append(call[u].value, lastrowid))
                          ELSE [call[u] EXCEPT !.pc = "select", !.locked = TRUE]]
    /\ UNCHANGED <<category_assignments, oauth_tokens, connections, oauth_states, now,
                   meetings, categories, ai_requests, ai_responses, tasks, notes,
                   transcripts, provider, gateway_budget, invocations>>

\* cursor.execute(SELECT id FROM messages WHERE provider_message_id = ?)
execute_select(u) ==
    /\ call[u].pc = "select"
    /\ LET existing == message_id_by_provider_id(
                           messages, Head(call[u].batch).provider_message_id)
       IN  call' = [call EXCEPT ![u] =
                       StatementAfter(call[u], call[u].lastrowid,
                                     IF existing # 0 THEN Append(call[u].value, existing)
                                     ELSE call[u].value)]
    /\ UNCHANGED <<store, provider, gateway_budget, invocations>>

\* connection.commit(), close and return ids
connection_commit(u) ==
    /\ call[u].pc = "commit"
    /\ call' = [call EXCEPT ![u] = Done("ingest_messages", call[u].arg, "ok", call[u].value)]
    /\ UNCHANGED <<store, provider, gateway_budget, invocations>>

\* RuleBasedClassifier.suggest called on its own
classifier_suggest(u, message, cats) ==
    /\ call[u].pc = "idle"
    /\ call' = [call EXCEPT ![u] =
                   [Done("classifier_suggest", 0, "ok", suggest(message, cats))
                        EXCEPT !.message = message, !.categories = cats]]
    /\ UNCHANGED <<store, provider, gateway_budget, invocations>>

\* CategoryService.create_category
create_category(u, category) ==
    /\ call[u].pc = "idle"
    /\ sqlite_sequence.categories < MaxRowId
    /\ LET created == store_create_category(categories, sqlite_sequence.categories,
                                            category, u)
       IN  /\ Len(created.table) <= MaxCategories
           /\ categories' = created.table
           /\ sqlite_sequence' = [sqlite_sequence EXCEPT !.categories = created.seq]
           /\ call' = [call EXCEPT ![u] = Done("create_category", category, "ok", created.id)]
    /\ UNCHANGED <<category_assignments, oauth_tokens, connections, oauth_states, now,
                   meetings, messages, ai_requests, ai_responses, tasks, notes,
                   transcripts, provider, gateway_budget, invocations>>

\* Category(name=item.name, description=item.description) for each stored row
as_categories(rows) ==
    [i \in DOMAIN rows |-> [name |-> rows[i].name, description |-> rows[i].description]]

\* "\n".join(f"- {category.name}" for category in categories)
category_list(cats) ==
    Join(<<10>>, [i \in DOMAIN cats |-> TxtDashSpace \o cats[i].name])

\* the prompt of suggest_categories_ai
suggest_prompt(message, cats) ==
    SuggestPromptHead \o category_list(cats) \o <<10, 10>>
        \o TxtEmailSubject \o message.subject \o <<10>>
        \o TxtEmailBody \o message.body \o <<10>>

\* the calls started so far that reach the gateway
GatewayBudgetUsed ==
    Len(invocations) + Cardinality({v \in Users : call[v].pc = "generate_text"})

\* a call that has built its prompt and is about to call generate_text
Generating(op, arg, message, cats, purpose, prompt) ==
    [Idle EXCEPT !.pc = "generate_text", !.op = op, !.arg = arg,
                 !.message = message, !.categories = cats,
                 !.purpose = purpose, !.prompt = prompt]

\* CategoryService.suggest_categories_ai up to the call of generate_text
suggest_categories_ai(u, message_id) ==
    /\ call[u].pc = "idle"
    /\ LET message == get_message(message_id, u)
           cats == as_categories(list_categories(u))
       IN  IF message = NoRow
           THEN call' = [call EXCEPT ![u] =
                            Done("suggest_categories_ai", message_id, "NotFound", <<>>)]
           ELSE IF cats = <<>>
           THEN call' = [call EXCEPT ![u] =
                            [Done("suggest_categories_ai", message_id, "ok", <<>>)
                                 EXCEPT !.message = message]]
           ELSE /\ GatewayBudgetUsed < gateway_budget
                /\ call' = [call EXCEPT ![u] =
                               Generating("suggest_categories_ai", message_id, message, cats,
                                          "category_suggestion", suggest_prompt(message, cats))]
    /\ UNCHANGED <<store, provider, gateway_budget, invocations>>

\* AiProvider.generate_text returns: the mock echoes, a networked provider
\* answers with any of its replies
generate_text(u) ==
    /\ call[u].pc = "generate_text"
    /\ \E text \in (IF provider = "mock"
                    THEN {mock_generate_text(call[u].prompt, call[u].purpose)}
                    ELSE Replies(call[u].purpose)) :
           /\ call' = [call EXCEPT ![u].pc = "log_ai_request", ![u].text = text]
           /\ invocations' = Append(invocations,
                                    [user |-> u, op |-> call[u].op, arg |-> call[u].arg,
                                     purpose |-> call[u].purpose,
                                     prompt |-> call[u].prompt, ok |-> TRUE, text |-> text])
    /\ UNCHANGED <<store, provider, gateway_budget>>

\* the provider fails after the service has already written the AiRequest
generate_text_raises_after_request(u) ==
    /\ call[u].pc = "generate_text"
    /\ provider # "mock"
    /\ call' = [call EXCEPT ![u] = Done(call[u].op, call[u].arg, "RuntimeError", <<>>)]
    /\ invocations' = Append(invocations,
                             [user |-> u, op |-> call[u].op, arg |-> call[u].arg,
                              purpose |-> call[u].purpose,
                              prompt |-> call[u].prompt, ok |-> FALSE, text |-> <<>>])
    /\ ai_requests' = Append(ai_requests,
                             [id |-> Len(ai_requests) + 1, user_id |-> u,
                              provider |-> provider, model |-> model_name(provider),
                              prompt |-> call[u].prompt, purpose |-> call[u].purpose])
    /\ UNCHANGED <<category_assignments, oauth_tokens, connections, oauth_states, now,
                   meetings, messages, categories, ai_responses, tasks, notes, transcripts,
                   sqlite_sequence, provider, gateway_budget>>

\* the service catches the RuntimeError and calls the provider again
generate_text_raises_and_retries(u) ==
    /\ call[u].pc = "generate_text"
    /\ provider # "mock"
    /\ call' = call
    /\ invocations' = Append(invocations,
                             [user |-> u, op |-> call[u].op, arg |-> call[u].arg,
                              purpose |-> call[u].purpose,
                              prompt |-> call[u].prompt, ok |-> FALSE, text |-> <<>>])
    /\ UNCHANGED <<store, provider, gateway_budget>>

\* OllamaProvider / OpenAiProvider.generate_text raises RuntimeError, which
\* no service catches
generate_text_raises(u) ==
    /\ call[u].pc = "generate_text"
    /\ provider # "mock"
    /\ call' = [call EXCEPT ![u] = Done(call[u].op, call[u].arg, "RuntimeError", <<>>)]
    /\ invocations' = Append(invocations,
                             [user |-> u, op |-> call[u].op, arg |-> call[u].arg,
                              purpose |-> call[u].purpose,
                              prompt |-> call[u].prompt, ok |-> FALSE, text |-> <<>>])
    /\ UNCHANGED <<store, provider, gateway_budget>>

\* the request id is taken but the AiRequest row is not written yet
log_ai_request_deferred(u) ==
    /\ call[u].pc = "log_ai_request"
    /\ call' = [call EXCEPT ![u].pc = "log_ai_response",
                            ![u].request_id = Len(ai_requests) + 1]
    /\ UNCHANGED <<store, provider, gateway_budget, invocations>>

\* SqliteStore.log_ai_request, called with the AiRequest of the service
log_ai_request(u) ==
    /\ call[u].pc = "log_ai_request"
    /\ LET request_id == Len(ai_requests) + 1
       IN  /\ ai_requests' = Append(ai_requests,
                                    [id |-> request_id, user_id |-> u,
                                     provider |-> provider, model |-> model_name(provider),
                                     prompt |-> call[u].prompt, purpose |-> call[u].purpose])
           /\ call' = [call EXCEPT ![u].pc = "log_ai_response", ![u].request_id = request_id]
    /\ UNCHANGED <<category_assignments, oauth_tokens, connections, oauth_states, now,
                   meetings, messages, categories, ai_responses, tasks, notes, transcripts,
                   sqlite_sequence, provider, gateway_budget, invocations>>

\* the AiResponse is linked to the newest AiRequest of the table instead of
\* the request id the service holds
log_ai_response_to_latest_request(u) ==
    /\ call[u].pc = "log_ai_response"
    /\ ai_responses' = Append(ai_responses,
                              [id |-> Len(ai_responses) + 1,
                               request_id |-> Len(ai_requests),
                               response_text |-> call[u].text,
                               token_estimate |-> estimate_tokens(call[u].text)])
    /\ call' = [call EXCEPT ![u].pc = "use_response"]
    /\ UNCHANGED <<category_assignments, oauth_tokens, connections, oauth_states, now,
                   meetings, messages, categories, ai_requests, tasks, notes, transcripts,
                   sqlite_sequence, provider, gateway_budget, invocations>>

\* the AiResponse row is never written
log_ai_response_skipped(u) ==
    /\ call[u].pc = "log_ai_response"
    /\ call' = [call EXCEPT ![u].pc = "use_response"]
    /\ UNCHANGED <<store, provider, gateway_budget, invocations>>

\* SqliteStore.log_ai_response, called with the AiResponse of the service
log_ai_response(u) ==
    /\ call[u].pc = "log_ai_response"
    /\ ai_responses' = Append(ai_responses,
                              [id |-> Len(ai_responses) + 1,
                               request_id |-> call[u].request_id,
                               response_text |-> call[u].text,
                               token_estimate |-> estimate_tokens(call[u].text)])
    /\ call' = [call EXCEPT ![u].pc = "use_response"]
    /\ UNCHANGED <<category_assignments, oauth_tokens, connections, oauth_states, now,
                   meetings, messages, categories, ai_requests, tasks, notes, transcripts,
                   sqlite_sequence, provider, gateway_budget, invocations>>

\* the line lower-cased and stripped of whitespace only
cleaned_keeping_dash(line) == Lower(Strip(line))

\* line.strip().lstrip("-").strip().lower()
cleaned_lower(line) == Lower(Strip(LStripDash(Strip(line))))

\* normalized = {category.name.lower(): category for category in categories}:
\* a later category replaces an earlier one under the same key
in_normalized(cats, key) == \E i \in DOMAIN cats : Lower(cats[i].name) = key

normalized(cats, key) ==
    cats[CHOOSE i \in DOMAIN cats :
             /\ Lower(cats[i].name) = key
             /\ \A j \in DOMAIN cats : Lower(cats[j].name) = key => j <= i]

\* the loop over response_text.splitlines()
RECURSIVE validated_suggestions(_, _, _)
validated_suggestions(lines, cats, suggestions) ==
    IF lines = <<>> THEN suggestions
    ELSE LET cleaned == cleaned_lower(Head(lines))
         IN  validated_suggestions(Tail(lines), cats,
                                   IF in_normalized(cats, cleaned)
                                   THEN Append(suggestions, normalized(cats, cleaned))
                                   ELSE suggestions)

\* the validated lines and no fallback
suggestions_only(text, message, cats) ==
    validated_suggestions(SplitLines(text), cats, <<>>)

\* the result of suggest_categories_ai: the validated lines, or the rules
suggestions_or_rules(text, message, cats) ==
    LET suggestions == validated_suggestions(SplitLines(text), cats, <<>>)
    IN  IF suggestions # <<>> THEN suggestions ELSE suggest(message, cats)

\* CategoryService.suggest_categories_ai after the audit log is written
suggest_categories_ai_result(u) ==
    /\ call[u].pc = "use_response"
    /\ call[u].op = "suggest_categories_ai"
    /\ call' = [call EXCEPT ![u].pc = "done", ![u].status = "ok",
                            ![u].value = suggestions_or_rules(call[u].text, call[u].message,
                                                              call[u].categories)]
    /\ UNCHANGED <<store, provider, gateway_budget, invocations>>

\* str(n) of a row id
RECURSIVE DecimalText(_)
DecimalText(n) ==
    IF n < 10 THEN <<48 + n>> ELSE DecimalText(n \div 10) \o <<48 + (n % 10)>>

\* ChatService._format_message
format_message(row) ==
    TxtIdLine \o DecimalText(row.id) \o TxtFromLine \o row.sender
        \o TxtSubjectLine \o row.subject \o TxtSnippetLine \o row.snippet \o <<10>>

\* "\n\n".join of the sections that are not empty; the meeting section is the
\* join of no meeting
answer_context(found, found_meetings) ==
    LET message_context == Join(<<10, 10>>, [i \in DOMAIN found |-> format_message(found[i])])
        meeting_context == Join(<<10, 10>>, found_meetings)
    IN  Join(<<10, 10>>, SelectSeq(<<message_context, meeting_context>>,
                                   LAMBDA section : section # <<>>))

AnswerLimit == 3

\* ChatService.answer up to the call of generate_text
answer(u, query) ==
    /\ call[u].pc = "idle"
    /\ GatewayBudgetUsed < gateway_budget
    /\ LET context == answer_context(search_messages(query, AnswerLimit, u),
                                     search_meetings(query, AnswerLimit, u))
           prompt == AnswerPromptHead \o query \o TxtContext \o context \o <<10>>
       IN  call' = [call EXCEPT ![u] =
                       Generating("answer", query, NoRow, <<>>, "answer", prompt)]
    /\ UNCHANGED <<store, provider, gateway_budget, invocations>>

\* the prompts built from one stored message
draft_prompt(message, instructions) ==
    DraftPromptHead \o message.sender \o TxtSubjectLine \o message.subject
        \o TxtBodyLine \o message.body \o TxtUserInstructions \o instructions \o <<10>>

summary_prompt(message) ==
    SummaryPromptHead \o message.sender \o TxtSubjectLine \o message.subject
        \o TxtBodyLine \o message.body \o <<10>>

follow_up_prompt(message) ==
    FollowUpPromptHead \o message.sender \o TxtSubjectLine \o message.subject
        \o TxtBodyLine \o message.body \o <<10>>

extract_prompt(message) ==
    ExtractPromptHead \o message.subject \o TxtFromLine \o message.sender
        \o TxtBodyLine \o message.body \o <<10>>

\* message = store.get_message(message_id, user_id); if not message: raise
\* ValueError; call generate_text with the prompt built from the message
start_with_message(u, op, message_id, purpose, prompt) ==
    /\ call[u].pc = "idle"
    /\ LET message == get_message(message_id, u)
       IN  IF message = NoRow
           THEN call' = [call EXCEPT ![u] = Done(op, message_id, "NotFound", <<>>)]
           ELSE /\ GatewayBudgetUsed < gateway_budget
                /\ call' = [call EXCEPT ![u] =
                               Generating(op, message_id, message, <<>>, purpose,
                                          prompt)]
    /\ UNCHANGED <<store, provider, gateway_budget, invocations>>

\* ChatService.draft_reply up to the call of generate_text
draft_reply(u, message_id, instructions) ==
    start_with_message(u, "draft_reply", message_id, "draft",
                       draft_prompt(get_message(message_id, u), instructions))

\* MessageInsightsService.summarize_message up to the call of generate_text
summarize_message(u, message_id) ==
    start_with_message(u, "summarize_message", message_id, "message_summary",
                       summary_prompt(get_message(message_id, u)))

\* MessageInsightsService.suggest_follow_up up to the call of generate_text
suggest_follow_up(u, message_id) ==
    start_with_message(u, "suggest_follow_up", message_id, "follow_up",
                       follow_up_prompt(get_message(message_id, u)))

\* TaskService.extract_tasks_from_message up to the call of generate_text
extract_tasks_from_message(u, message_id) ==
    start_with_message(u, "extract_tasks_from_message", message_id, "extract_tasks",
                       extract_prompt(get_message(message_id, u)))

\* MeetingSummaryService.add_transcript
add_transcript(u, meeting_id, content) ==
    /\ call[u].pc = "idle"
    /\ transcripts' = save_meeting_transcript(transcripts, meeting_id, content)
    /\ call' = [call EXCEPT ![u] = Done("add_transcript", meeting_id, "ok", <<>>)]
    /\ UNCHANGED <<category_assignments, oauth_tokens, connections, oauth_states, now,
                   meetings, messages, categories, ai_requests, ai_responses, tasks, notes,
                   sqlite_sequence, provider, gateway_budget, invocations>>

\* transcript = store.get_meeting_transcript(meeting_id); if not transcript:
\* raise ValueError; build the prompt; call generate_text
start_with_transcript(u, op, meeting_id, purpose, head) ==
    /\ call[u].pc = "idle"
    /\ LET transcript == get_meeting_transcript(meeting_id)
       IN  IF transcript = NoRow
           THEN call' = [call EXCEPT ![u] = Done(op, meeting_id, "NotFound", <<>>)]
           ELSE /\ GatewayBudgetUsed < gateway_budget
                /\ call' = [call EXCEPT ![u] =
                               Generating(op, meeting_id, NoRow, <<>>, purpose,
                                          head \o transcript.content \o <<10>>)]
    /\ UNCHANGED <<store, provider, gateway_budget, invocations>>

\* TaskService.extract_tasks_from_meeting up to the call of generate_text
extract_tasks_from_meeting(u, meeting_id) ==
    start_with_transcript(u, "extract_tasks_from_meeting", meeting_id, "extract_tasks",
                          MeetingExtractPromptHead)

\* MeetingSummaryService.summarize_meeting up to the call of generate_text
summarize_meeting(u, meeting_id) ==
    start_with_transcript(u, "summarize_meeting", meeting_id, "meeting_summary",
                          MeetingSummaryPromptHead)

\* return response_text, once the audit log is written
return_response_text(u, op) ==
    /\ call[u].pc = "use_response"
    /\ call[u].op = op
    /\ call' = [call EXCEPT ![u].pc = "done", ![u].status = "ok",
                            ![u].value = call[u].text]
    /\ UNCHANGED <<store, provider, gateway_budget, invocations>>

\* ChatService.answer after the audit log is written
answer_result(u) == return_response_text(u, "answer")

\* ChatService.draft_reply after the audit log is written
draft_reply_result(u) == return_response_text(u, "draft_reply")

\* the follow-up stored as a note of the message, the note's id returned
suggest_follow_up_result_with_note(u) ==
    /\ call[u].pc = "use_response"
    /\ call[u].op = "suggest_follow_up"
    /\ notes' = Append(notes, [id |-> Len(notes) + 1, user_id |-> u,
                               parent_type |-> "message", parent_id |-> call[u].arg,
                               content |-> call[u].text])
    /\ call' = [call EXCEPT ![u].pc = "done", ![u].status = "ok",
                            ![u].value = Len(notes) + 1]
    /\ UNCHANGED <<category_assignments, oauth_tokens, connections, oauth_states, now,
                   meetings, messages, categories, ai_requests, ai_responses, tasks,
                   transcripts, sqlite_sequence, provider, gateway_budget, invocations>>

\* MessageInsightsService.suggest_follow_up after the audit log is written
suggest_follow_up_result(u) == return_response_text(u, "suggest_follow_up")

\* store.add_note(Note(parent_type, parent_id, response_text)); return note_id
add_summary_note(u, op, parent_type) ==
    /\ call[u].pc = "use_response"
    /\ call[u].op = op
    /\ LET note == note_row(notes, u, parent_type, call[u].arg, call[u].text)
       IN  /\ notes' = Append(notes, note)
           /\ call' = [call EXCEPT ![u].pc = "done", ![u].status = "ok",
                                   ![u].value = note.id]
    /\ UNCHANGED <<category_assignments, oauth_tokens, connections, oauth_states, now,
                   meetings, messages, categories, ai_requests, ai_responses, tasks,
                   transcripts, sqlite_sequence, provider, gateway_budget, invocations>>

\* MessageInsightsService.summarize_message after the audit log is written
summarize_message_result(u) == add_summary_note(u, "summarize_message", "message")

\* MeetingSummaryService.summarize_meeting after the audit log is written
summarize_meeting_result(u) == add_summary_note(u, "summarize_meeting", "meeting")

\* line.strip().lstrip("-").strip()
cleaned_task(line) == Strip(LStripDash(Strip(line)))

\* the loop that adds a task for every line, the empty ones included
RECURSIVE add_tasks_loop_unfiltered(_, _, _, _, _, _)
add_tasks_loop_unfiltered(table, lines, user_id, parent_type, parent_id, task_ids) ==
    IF lines = <<>> THEN [table |-> table, task_ids |-> task_ids]
    ELSE LET task == task_row(table, user_id, parent_type, parent_id,
                              Strip(LStripDash(Strip(Head(lines)))))
         IN  add_tasks_loop_unfiltered(Append(table, task), Tail(lines), user_id,
                                       parent_type, parent_id, Append(task_ids, task.id))

\* the loop that skips a line whose task the parent already has
RECURSIVE add_tasks_loop_deduplicating(_, _, _, _, _, _)
add_tasks_loop_deduplicating(table, lines, user_id, parent_type, parent_id, task_ids) ==
    IF lines = <<>> THEN [table |-> table, task_ids |-> task_ids]
    ELSE LET cleaned == Strip(LStripDash(Strip(Head(lines))))
             task == task_row(table, user_id, parent_type, parent_id, cleaned)
             known == \E i \in DOMAIN table :
                          /\ table[i].parent_type = parent_type
                          /\ table[i].parent_id = parent_id
                          /\ table[i].description = cleaned
         IN  IF cleaned # <<>> /\ ~known
             THEN add_tasks_loop_deduplicating(Append(table, task), Tail(lines), user_id,
                                               parent_type, parent_id,
                                               Append(task_ids, task.id))
             ELSE add_tasks_loop_deduplicating(table, Tail(lines), user_id, parent_type,
                                               parent_id, task_ids)

\* the loop over response_text.splitlines(): one add_task per line that is
\* not empty once cleaned
RECURSIVE add_tasks_loop(_, _, _, _, _, _)
add_tasks_loop(table, lines, user_id, parent_type, parent_id, task_ids) ==
    IF lines = <<>> THEN [table |-> table, task_ids |-> task_ids]
    ELSE LET cleaned == cleaned_task(Head(lines))
             task == task_row(table, user_id, parent_type, parent_id, cleaned)
         IN  IF cleaned # <<>>
             THEN add_tasks_loop(Append(table, task), Tail(lines), user_id, parent_type,
                                 parent_id, Append(task_ids, task.id))
             ELSE add_tasks_loop(table, Tail(lines), user_id, parent_type, parent_id,
                                 task_ids)

add_extracted_tasks(u, op, parent_type) ==
    /\ call[u].pc = "use_response"
    /\ call[u].op = op
    /\ LET added == add_tasks_loop(tasks, SplitLines(call[u].text), u, parent_type,
                                   call[u].arg, <<>>)
       IN  /\ tasks' = added.table
           /\ call' = [call EXCEPT ![u].pc = "done", ![u].status = "ok",
                                   ![u].value = added.task_ids]
    /\ UNCHANGED <<category_assignments, oauth_tokens, connections, oauth_states, now,
                   meetings, messages, categories, ai_requests, ai_responses, notes,
                   transcripts, sqlite_sequence, provider, gateway_budget, invocations>>

\* TaskService.extract_tasks_from_message after the audit log is written
extract_tasks_from_message_result(u) ==
    add_extracted_tasks(u, "extract_tasks_from_message", "message")

\* TaskService.extract_tasks_from_meeting after the audit log is written
extract_tasks_from_meeting_result(u) ==
    add_extracted_tasks(u, "extract_tasks_from_meeting", "meeting")

\* the score counts the high keywords only when both lists match
triage_score_exclusive(text, high_keywords, medium_keywords) ==
    IF any_keyword_in(text, high_keywords) THEN 2
    ELSE IF any_keyword_in(text, medium_keywords) THEN 1 ELSE 0

\* score = 0; += 2 if any high keyword is in the text; += 1 if any medium one
triage_score(text, high_keywords, medium_keywords) ==
    (IF any_keyword_in(text, high_keywords) THEN 2 ELSE 0)
        + (IF any_keyword_in(text, medium_keywords) THEN 1 ELSE 0)

\* "high" if score >= 2 else "medium" if score == 1 else "low"
triage_priority(score) ==
    IF score >= 2 THEN "high" ELSE IF score = 1 THEN "medium" ELSE "low"

\* the dict rank_messages appends for one message
ranked_entry(message, high_keywords, medium_keywords) ==
    LET score == triage_score(search_text(message), high_keywords, medium_keywords)
    IN  [id |-> message.id, subject |-> message.subject, sender |-> message.sender,
         priority |-> triage_priority(score), score |-> score]

\* the entries with the highest score first
RECURSIVE sorted_by_score(_)
sorted_by_score(entries) ==
    IF entries = <<>> THEN <<>>
    ELSE LET i == CHOOSE i \in DOMAIN entries :
                      \A j \in DOMAIN entries :
                          \/ entries[j].score < entries[i].score
                          \/ entries[j].score = entries[i].score /\ i <= j
         IN  <<entries[i]>> \o sorted_by_score(SubSeq(entries, 1, i - 1)
                                               \o SubSeq(entries, i + 1, Len(entries)))

ranked_by_score(rows, high_keywords, medium_keywords) ==
    sorted_by_score([i \in DOMAIN rows |->
                        ranked_entry(rows[i], high_keywords, medium_keywords)])

\* the loop of rank_messages: one entry per message, in the order of the rows
ranked(rows, high_keywords, medium_keywords) ==
    [i \in DOMAIN rows |-> ranked_entry(rows[i], high_keywords, medium_keywords)]

\* TriageService.rank_messages of a service configured with the two lists
rank_messages(u, limit, high_keywords, medium_keywords) ==
    /\ call[u].pc = "idle"
    /\ call' = [call EXCEPT ![u] =
                   Done("rank_messages",
                        [limit |-> limit, high_keywords |-> high_keywords,
                         medium_keywords |-> medium_keywords],
                        "ok",
                        ranked(list_messages(limit, u), high_keywords, medium_keywords))]
    /\ UNCHANGED <<store, provider, gateway_budget, invocations>>

\* CategoryService.assign_category
assign_category(u, message_id, category_id) ==
    /\ call[u].pc = "idle"
    /\ category_assignments' =
           store_assign_category(category_assignments, message_id, category_id)
    /\ call' = [call EXCEPT ![u] =
                   Done("assign_category",
                        [message_id |-> message_id, category_id |-> category_id],
                        "ok", <<>>)]
    /\ UNCHANGED <<messages, categories, ai_requests, ai_responses, tasks, notes,
                   transcripts, meetings, oauth_tokens, connections, oauth_states, now,
                   sqlite_sequence, provider, gateway_budget, invocations>>

\* ChatService.add_note
add_note(u, parent_type, parent_id, content) ==
    /\ call[u].pc = "idle"
    /\ LET note == note_row(notes, u, parent_type, parent_id, content)
       IN  /\ notes' = Append(notes, note)
           /\ call' = [call EXCEPT ![u] =
                          Done("add_note", [parent_type |-> parent_type,
                                            parent_id |-> parent_id], "ok", note.id)]
    /\ UNCHANGED <<category_assignments, oauth_tokens, connections, oauth_states, now,
                   meetings, messages, categories, ai_requests, ai_responses, tasks,
                   transcripts, sqlite_sequence, provider, gateway_budget, invocations>>

\* TaskService.add_task
add_task(u, parent_type, parent_id, description) ==
    /\ call[u].pc = "idle"
    /\ LET task == task_row(tasks, u, parent_type, parent_id, description)
       IN  /\ tasks' = Append(tasks, task)
           /\ call' = [call EXCEPT ![u] =
                          Done("add_task", [parent_type |-> parent_type,
                                            parent_id |-> parent_id], "ok", task.id)]
    /\ UNCHANGED <<category_assignments, oauth_tokens, connections, oauth_states, now,
                   meetings, messages, categories, ai_requests, ai_responses, notes,
                   transcripts, sqlite_sequence, provider, gateway_budget, invocations>>

\* GET /messages: the messages of the caller's user
api_list_messages(u, limit) ==
    /\ call[u].pc = "idle"
    /\ call' = [call EXCEPT ![u] = Done("list_messages", limit, "ok",
                                        list_messages(limit, u))]
    /\ UNCHANGED <<store, provider, gateway_budget, invocations>>

\* GET /categories: the categories of the caller's user
api_list_categories(u) ==
    /\ call[u].pc = "idle"
    /\ call' = [call EXCEPT ![u] = Done("list_categories", 0, "ok", list_categories(u))]
    /\ UNCHANGED <<store, provider, gateway_budget, invocations>>

\* GET /notes: the notes of a parent that the caller's user owns
list_notes(u, parent_type, parent_id) ==
    /\ call[u].pc = "idle"
    /\ call' = [call EXCEPT ![u] =
                   Done("list_notes", [parent_type |-> parent_type, parent_id |-> parent_id],
                        "ok", store_list_notes(parent_type, parent_id, u))]
    /\ UNCHANGED <<store, provider, gateway_budget, invocations>>

\* TaskService.list_tasks
list_tasks(u, parent_type, parent_id) ==
    /\ call[u].pc = "idle"
    /\ call' = [call EXCEPT ![u] =
                   Done("list_tasks", [parent_type |-> parent_type, parent_id |-> parent_id],
                        "ok", store_list_tasks(parent_type, parent_id, u))]
    /\ UNCHANGED <<store, provider, gateway_budget, invocations>>

\* _keystream(b"secret", n) for n up to 4: the first bytes of
\* sha256(secret + counter 0)
keystream == <<76, 185, 42, 14>>

RECURSIVE xor(_, _, _)
\* b ^ k on bytes, bit by bit
xor(b, k, bits) ==
    IF bits = 0 THEN 0
    ELSE (((b % 2) + (k % 2)) % 2) + 2 * xor(b \div 2, k \div 2, bits - 1)

obfuscate(raw) == [i \in 1..Len(raw) |-> xor(raw[i], keystream[i], 8)]

\* "=" in an encoded text, whose other characters are written as their
\* index in the URL-safe alphabet
Pad == 64

RECURSIVE urlsafe_b64encode(_)
urlsafe_b64encode(raw) ==
    IF Len(raw) = 0 THEN <<>>
    ELSE IF Len(raw) = 1
    THEN <<raw[1] \div 4, (raw[1] % 4) * 16, Pad, Pad>>
    ELSE IF Len(raw) = 2
    THEN <<raw[1] \div 4, (raw[1] % 4) * 16 + raw[2] \div 16, (raw[2] % 16) * 4, Pad>>
    ELSE <<raw[1] \div 4, (raw[1] % 4) * 16 + raw[2] \div 16,
           (raw[2] % 16) * 4 + raw[3] \div 64, raw[3] % 64>>
         \o urlsafe_b64encode(SubSeq(raw, 4, Len(raw)))

RECURSIVE urlsafe_b64decode(_)
urlsafe_b64decode(payload) ==
    IF Len(payload) < 4 THEN <<>>
    ELSE LET c == SubSeq(payload, 1, 4)
             first == c[1] * 4 + c[2] \div 16
         IN  IF c[3] = Pad THEN <<first>>
             ELSE IF c[4] = Pad THEN <<first, (c[2] % 16) * 16 + c[3] \div 4>>
             ELSE <<first, (c[2] % 16) * 16 + c[3] \div 4, (c[3] % 4) * 64 + c[4]>>
                  \o urlsafe_b64decode(SubSeq(payload, 5, Len(payload)))

\* TokenCodec.encode
codec_encode(plaintext) == urlsafe_b64encode(obfuscate(plaintext))

\* TokenCodec.decode
codec_decode(payload) == obfuscate(urlsafe_b64decode(payload))

\* "if refresh_token": None and the empty text are false
Truthy(text) == text # None /\ text # <<>>

\* expires_at: None, a text that is not in ISO format, the ISO text of the
\* time `seconds` without an offset, and the same with "+00:00" behind it
NoExpiry == [iso |-> "None", seconds |-> 0]
NotIsoFormat == [iso |-> "ValueError", seconds |-> 0]
isoformat(seconds) == [iso |-> "naive", seconds |-> seconds]
isoformat_utc(seconds) == [iso |-> "aware", seconds |-> seconds]

\* timedelta(seconds=60)
RefreshWindow == 60

\* TokenService._expires_soon: "True", "False", or the TypeError of comparing
\* a datetime that has an offset with datetime.utcnow(), which has none
expires_soon(expires_at, utcnow) ==
    IF expires_at = NoExpiry THEN "False"
    ELSE IF expires_at.iso = "ValueError" THEN "False"
    ELSE IF expires_at.iso = "aware" THEN "TypeError"
    ELSE IF expires_at.seconds <= utcnow + RefreshWindow THEN "True"
    ELSE "False"

\* what TokenService.load_tokens returns from the row of a user
loaded_tokens(record) ==
    [access_token |-> codec_decode(record.access_token),
     refresh_token |-> IF Truthy(record.refresh_token)
                       THEN codec_decode(record.refresh_token) ELSE None,
     expires_at |-> record.expires_at]

\* the table after TokenService.store_tokens
stored_tokens(table, u, provider_name, access_token, refresh_token, expires_at) ==
    upsert_oauth_token(table, u, provider_name, codec_encode(access_token),
                       IF Truthy(refresh_token) THEN codec_encode(refresh_token) ELSE None,
                       expires_at)

UnchangedButTokens ==
    UNCHANGED <<messages, categories, ai_requests, ai_responses, tasks, notes,
                transcripts, meetings, category_assignments, connections, oauth_states,
                now, sqlite_sequence, provider, gateway_budget, invocations>>

\* TokenService.store_tokens
store_tokens(u, provider_name, access_token, refresh_token, expires_at) ==
    /\ call[u].pc = "idle"
    /\ oauth_tokens' = stored_tokens(oauth_tokens, u, provider_name, access_token,
                                     refresh_token, expires_at)
    /\ call' = [call EXCEPT ![u] =
                    Done("store_tokens", provider_name, "ok",
                         get_oauth_token(oauth_tokens', u, provider_name).id)]
    /\ UnchangedButTokens

\* TokenService.load_tokens
load_tokens(u, provider_name) ==
    /\ call[u].pc = "idle"
    /\ LET record == get_oauth_token(oauth_tokens, u, provider_name)
       IN  call' = [call EXCEPT ![u] =
                        IF record.id = 0
                        THEN Done("load_tokens", provider_name, "ValueError", <<>>)
                        ELSE Done("load_tokens", provider_name, "ok",
                                  loaded_tokens(record))]
    /\ UNCHANGED oauth_tokens
    /\ UnchangedButTokens

\* TokenService.get_access_token with refresh_if_needed; token_result is
\* what refresh_oauth_token gives if it is called: an OAuthTokenResult, or
\* the error of a token endpoint that refuses
get_access_token(u, provider_name, token_result) ==
    /\ call[u].pc = "idle"
    /\ LET record == get_oauth_token(oauth_tokens, u, provider_name)
           arg == [provider_name |-> provider_name, token_result |-> token_result]
           tokens == loaded_tokens(record)
           soon == expires_soon(record.expires_at, now)
       IN  IF record.id = 0
           THEN /\ call' = [call EXCEPT ![u] =
                                Done("get_access_token", arg, "ValueError", <<>>)]
                /\ UNCHANGED oauth_tokens
           ELSE IF soon = "TypeError"
           THEN /\ call' = [call EXCEPT ![u] =
                                Done("get_access_token", arg, "TypeError", <<>>)]
                /\ UNCHANGED oauth_tokens
           ELSE IF soon = "False"
           THEN /\ call' = [call EXCEPT ![u] =
                                Done("get_access_token", arg, "ok", tokens.access_token)]
                /\ UNCHANGED oauth_tokens
           ELSE IF ~Truthy(tokens.refresh_token)
           THEN /\ call' = [call EXCEPT ![u] =
                                Done("get_access_token", arg, "ValueError", <<>>)]
                /\ UNCHANGED oauth_tokens
           ELSE IF ~token_result.ok
           THEN /\ call' = [call EXCEPT ![u] =
                                Done("get_access_token", arg, "RuntimeError", <<>>)]
                /\ UNCHANGED oauth_tokens
           ELSE /\ oauth_tokens' =
                       stored_tokens(oauth_tokens, u, provider_name,
                                     token_result.access_token,
                                     IF Truthy(token_result.refresh_token)
                                     THEN token_result.refresh_token
                                     ELSE tokens.refresh_token,
                                     token_result.expires_at)
                /\ call' = [call EXCEPT ![u] =
                                Done("get_access_token", arg, "ok",
                                     token_result.access_token)]
    /\ UnchangedButTokens

\* timedelta(minutes=10), in seconds
StateLifetime == 600

OAuthProviders == {"google", "microsoft"}

\* oauth.create_state_token: secrets.token_urlsafe(24), a token that was
\* never given out before (the tokens are numbered as they are created)
create_state_token == Cardinality(oauth_states) + 1

\* _validate_state that does not compare the provider
state_is_valid_for_any_provider(states, utcnow, provider_name, state) ==
    \E record \in states :
        /\ record.state = state
        /\ ~(utcnow - record.created_at > StateLifetime)

\* _validate_state raises no HTTPException: the state is registered, for
\* this provider, and not more than ten minutes old
state_is_valid(states, utcnow, provider_name, state) ==
    \E record \in states :
        /\ record.state = state
        /\ record.provider = provider_name
        /\ ~(utcnow - record.created_at > StateLifetime)

\* GET /oauth/google and GET /oauth/microsoft: create a state token,
\* _register_state(provider, state), return the URL and the state
oauth_start(u, provider_name) ==
    /\ call[u].pc = "idle"
    /\ LET state == create_state_token
       IN  /\ oauth_states' = oauth_states \cup
                  {[state |-> state, provider |-> provider_name, created_at |-> now]}
           /\ call' = [call EXCEPT ![u] = Done("oauth_start", provider_name, "ok", state)]
    /\ UNCHANGED <<messages, categories, ai_requests, ai_responses, tasks, notes,
                   transcripts, meetings, category_assignments, oauth_tokens, connections,
                   now, sqlite_sequence, provider, gateway_budget, invocations>>

\* GET /oauth/callback
oauth_callback(u, provider_name, code, state) ==
    /\ call[u].pc = "idle"
    /\ LET arg == [provider |-> provider_name, code |-> code, state |-> state]
       IN  IF provider_name \notin OAuthProviders
                \/ ~state_is_valid(oauth_states, now, provider_name, state)
           THEN /\ call' = [call EXCEPT ![u] = Done("oauth_callback", arg, "HTTP400", <<>>)]
                /\ UNCHANGED connections
           ELSE /\ connections' =
                       Append(connections,
                              connection_row(connections, u, "oauth", provider_name,
                                             "authorized", now, "auth_code_received"))
                /\ call' = [call EXCEPT ![u] = Done("oauth_callback", arg, "ok", <<>>)]
    /\ UNCHANGED <<messages, categories, ai_requests, ai_responses, tasks, notes,
                   transcripts, meetings, category_assignments, oauth_tokens, oauth_states,
                   now, sqlite_sequence, provider, gateway_budget, invocations>>

\* time passes
tick(seconds) ==
    /\ now' = now + seconds
    /\ UNCHANGED <<messages, categories, ai_requests, ai_responses, tasks, notes,
                   transcripts, meetings, category_assignments, oauth_tokens, connections,
                   oauth_states, sqlite_sequence, provider, gateway_budget, call,
                   invocations>>

\* the service call returns to its caller
Return(u) ==
    /\ call[u].pc = "done"
    /\ call' = [call EXCEPT ![u] = Idle]
    /\ UNCHANGED <<store, provider, gateway_budget, invocations>>

----------------------------------------------------------------------------
(* Specifications *)

Providers == {"mock", "ollama", "openai"}

\* the mock and one networked provider: the two networked ones differ in the
\* model name only
ScenarioProviders == {p \in Providers : p # "ollama"}

EmptyStore ==
    /\ messages = <<>>
    /\ categories = <<>>
    /\ ai_requests = <<>>
    /\ ai_responses = <<>>
    /\ tasks = <<>>
    /\ notes = <<>>
    /\ transcripts = <<>>
    /\ meetings = <<>>
    /\ category_assignments = <<>>
    /\ oauth_tokens = <<>>
    /\ connections = <<>>
    /\ oauth_states = {}
    /\ now = 0
    /\ sqlite_sequence = [messages |-> 0, categories |-> 0, meetings |-> 0]
    /\ call = [u \in Users |-> Idle]
    /\ invocations = <<>>

\* ingestion by two users
InitIngest == EmptyStore /\ provider = "mock" /\ gateway_budget = MaxAiCalls

NextIngest ==
    \/ \E u \in Users, batch \in Batches(MessagePool) : ingest_messages(u, batch)
    \/ \E u \in Users : Return(u)

SpecIngest == InitIngest /\ [][NextIngest]_vars

\* category suggestion: user 1 ingests messages, creates categories and asks
\* for suggestions, one call at a time; user 2 is the other tenant, who may
\* own MsgA and a category.  Every insert is a first insert here (repeated
\* ones are the matter of SpecIngest).
NoneRunning == \A u \in Users : call[u].pc = "idle"

NotStored(message) == message_id_by_provider_id(messages, message.provider_message_id) = 0

NotCreated(u, category) ==
    ~\E i \in DOMAIN categories :
         categories[i].user_id = u /\ categories[i].name = category.name

IngestInputs == ({1} \X {MsgA, MsgB}) \cup ({2} \X {MsgA})

CategoryInputs == ({1} \X CategoryPool) \cup ({2} \X {CatHr})

InitSuggest == EmptyStore /\ provider \in ScenarioProviders /\ gateway_budget = MaxAiCalls

NextSuggest ==
    \/ \E in \in IngestInputs :
           NoneRunning /\ NotStored(in[2]) /\ ingest_messages(in[1], <<in[2]>>)
    \/ \E in \in CategoryInputs :
           NoneRunning /\ NotCreated(in[1], in[2]) /\ create_category(in[1], in[2])
    \/ \E message_id \in 1..MaxRowId :
           NoneRunning /\ suggest_categories_ai(1, message_id)
    \/ \E u \in Users : generate_text(u)
    \/ \E u \in Users : generate_text_raises(u)
    \/ \E u \in Users : log_ai_request(u)
    \/ \E u \in Users : log_ai_response(u)
    \/ \E u \in Users : suggest_categories_ai_result(u)
    \/ \E u \in Users : Return(u)

SpecSuggest == InitSuggest /\ [][NextSuggest]_vars

\* the classifier on its own, over every message and candidate list of the pools
InitClassifier == EmptyStore /\ provider = "mock" /\ gateway_budget = MaxAiCalls

NextClassifier ==
    \/ \E message \in ClassifierMessages, cats \in CandidateLists :
           classifier_suggest(1, message, cats)
    \/ Return(1)

SpecClassifier == InitClassifier /\ [][NextClassifier]_vars

\* the eight operations that call the gateway, one call at a time: user 1
\* stores a message, a category and a transcript and calls the operations;
\* user 2 is the other tenant, who may own MsgA
AuditIngestInputs == ({1} \X {MsgB}) \cup ({2} \X {MsgA})

MeetingIds == {1, 2}

InitAudit == EmptyStore /\ provider \in ScenarioProviders /\ gateway_budget = MaxAiCalls

NextAudit ==
    \/ \E in \in AuditIngestInputs :
           NoneRunning /\ NotStored(in[2]) /\ ingest_messages(in[1], <<in[2]>>)
    \/ NoneRunning /\ NotCreated(1, CatHr) /\ create_category(1, CatHr)
    \/ NoneRunning /\ transcripts = <<>> /\ add_transcript(1, 1, TxtTranscript)
    \/ \E message_id \in 1..MaxRowId :
           NoneRunning /\ suggest_categories_ai(1, message_id)
    \/ NoneRunning /\ answer(1, TxtA)
    \/ \E message_id \in 1..MaxRowId :
           NoneRunning /\ draft_reply(1, message_id, TxtBrief)
    \/ \E message_id \in 1..MaxRowId :
           NoneRunning /\ summarize_message(1, message_id)
    \/ \E message_id \in 1..MaxRowId :
           NoneRunning /\ suggest_follow_up(1, message_id)
    \/ \E message_id \in 1..MaxRowId :
           NoneRunning /\ extract_tasks_from_message(1, message_id)
    \/ \E meeting_id \in MeetingIds :
           NoneRunning /\ extract_tasks_from_meeting(1, meeting_id)
    \/ \E meeting_id \in MeetingIds :
           NoneRunning /\ summarize_meeting(1, meeting_id)
    \/ \E u \in Users : generate_text(u)
    \/ \E u \in Users : generate_text_raises(u)
    \/ \E u \in Users : log_ai_request(u)
    \/ \E u \in Users : log_ai_response(u)
    \/ \E u \in Users : suggest_categories_ai_result(u)
    \/ \E u \in Users : answer_result(u)
    \/ \E u \in Users : draft_reply_result(u)
    \/ \E u \in Users : suggest_follow_up_result(u)
    \/ \E u \in Users : summarize_message_result(u)
    \/ \E u \in Users : summarize_meeting_result(u)
    \/ \E u \in Users : extract_tasks_from_message_result(u)
    \/ \E u \in Users : extract_tasks_from_meeting_result(u)
    \/ \E u \in Users : Return(u)

SpecAudit == InitAudit /\ [][NextAudit]_vars

\* triage: both users ingest messages and rank them, one call at a time, with
\* any pair of keyword lists and any limit, the negative one included
TriageKeywords == {TxtTax, TxtPayLower}

KeywordLists == UNION {[1..n -> TriageKeywords] : n \in 0..MaxKeywords}

Limits == (-1)..MaxLimit

InitTriage == EmptyStore /\ provider = "mock" /\ gateway_budget = MaxAiCalls

NextTriage ==
    \/ \E u \in Users, message \in MessagePool :
           NoneRunning /\ NotStored(message) /\ ingest_messages(u, <<message>>)
    \/ \E u \in Users, limit \in Limits, high \in KeywordLists, medium \in KeywordLists :
           NoneRunning /\ rank_messages(u, limit, high, medium)
    \/ \E u \in Users : Return(u)

SpecTriage == InitTriage /\ [][NextTriage]_vars

\* task extraction: user 1 stores a message and a transcript and extracts
\* tasks from them, over and over, one call at a time; user 2 owns MsgA
MaxExtractions == 2

InitTasks ==
    EmptyStore /\ provider \in ScenarioProviders /\ gateway_budget = MaxExtractions

NextTasks ==
    \/ \E in \in AuditIngestInputs :
           NoneRunning /\ NotStored(in[2]) /\ ingest_messages(in[1], <<in[2]>>)
    \/ NoneRunning /\ transcripts = <<>> /\ add_transcript(1, 1, TxtTranscript)
    \/ \E message_id \in 1..MaxRowId :
           NoneRunning /\ extract_tasks_from_message(1, message_id)
    \/ \E meeting_id \in MeetingIds :
           NoneRunning /\ extract_tasks_from_meeting(1, meeting_id)
    \/ \E u \in Users : generate_text(u)
    \/ \E u \in Users : generate_text_raises(u)
    \/ \E u \in Users : log_ai_request(u)
    \/ \E u \in Users : log_ai_response(u)
    \/ \E u \in Users : extract_tasks_from_message_result(u)
    \/ \E u \in Users : extract_tasks_from_meeting_result(u)
    \/ \E u \in Users : Return(u)

SpecTasks == InitTasks /\ [][NextTasks]_vars

\* meetings of two users: each user stores meetings and transcripts and asks
\* for a meeting's summary or tasks, one call at a time
InitMeetings == EmptyStore /\ provider = "mock" /\ gateway_budget = MaxAiCalls

NextMeetings ==
    \/ \E u \in Users, batch \in MeetingBatches :
           NoneRunning /\ ingest_meetings(u, batch)
    \/ \E u \in Users, meeting_id \in MeetingIds :
           NoneRunning /\ add_transcript(u, meeting_id, TxtTranscript)
    \/ \E u \in Users, meeting_id \in MeetingIds :
           NoneRunning /\ extract_tasks_from_meeting(u, meeting_id)
    \/ \E u \in Users, meeting_id \in MeetingIds :
           NoneRunning /\ summarize_meeting(u, meeting_id)
    \/ \E u \in Users : generate_text(u)
    \/ \E u \in Users : log_ai_request(u)
    \/ \E u \in Users : log_ai_response(u)
    \/ \E u \in Users : extract_tasks_from_meeting_result(u)
    \/ \E u \in Users : summarize_meeting_result(u)
    \/ \E u \in Users : Return(u)

SpecMeetings == InitMeetings /\ [][NextMeetings]_vars

\* isolation: two users store messages, categories, notes and tasks, notes
\* and tasks of both on the same parent, and read them back, one call at a
\* time
MaxNotes == 2

InitIsolation == EmptyStore /\ provider = "mock" /\ gateway_budget = MaxAiCalls

NextIsolation ==
    \/ \E in \in AuditIngestInputs :
           NoneRunning /\ NotStored(in[2]) /\ ingest_messages(in[1], <<in[2]>>)
    \/ \E u \in Users :
           NoneRunning /\ NotCreated(u, CatHr) /\ create_category(u, CatHr)
    \/ \E u \in Users :
           NoneRunning /\ Len(notes) < MaxNotes /\ add_note(u, "message", 1, TxtA)
    \/ \E u \in Users :
           NoneRunning /\ Len(tasks) < MaxNotes /\ add_task(u, "message", 1, TxtA)
    \/ \E u \in Users, message_id \in 1..MaxBatch :
           NoneRunning /\ draft_reply(u, message_id, TxtBrief)
    \/ \E u \in Users : generate_text(u)
    \/ \E u \in Users : log_ai_request(u)
    \/ \E u \in Users : log_ai_response(u)
    \/ \E u \in Users : draft_reply_result(u)
    \/ \E u \in Users, limit \in Limits : NoneRunning /\ api_list_messages(u, limit)
    \/ \E u \in Users : NoneRunning /\ api_list_categories(u)
    \/ \E u \in Users : NoneRunning /\ list_notes(u, "message", 1)
    \/ \E u \in Users : NoneRunning /\ list_tasks(u, "message", 1)
    \/ \E u \in Users : Return(u)

SpecIsolation == InitIsolation /\ [][NextIsolation]_vars

\* categories: both users create categories, the same names again and again,
\* and list them, one call at a time
SharedCategories == {CatPay, CatHr}

InitCategories == EmptyStore /\ provider = "mock" /\ gateway_budget = MaxAiCalls

NextCategories ==
    \/ \E u \in Users, category \in SharedCategories :
           NoneRunning /\ create_category(u, category)
    \/ \E u \in Users : NoneRunning /\ api_list_categories(u)
    \/ \E u \in Users : Return(u)

SpecCategories == InitCategories /\ [][NextCategories]_vars

\* assignments: each user owns one message and one category; both assign
\* categories to messages, any ids, the calls of the two overlapping
MaxAssignments == 2

\* the ids of the rows of the scenario
AssignedIds == {1, 2}

InitAssign == EmptyStore /\ provider = "mock" /\ gateway_budget = MaxAiCalls

NextAssign ==
    \/ \E in \in AuditIngestInputs :
           NoneRunning /\ NotStored(in[2]) /\ ingest_messages(in[1], <<in[2]>>)
    \/ \E u \in Users :
           NoneRunning /\ NotCreated(u, CatHr) /\ create_category(u, CatHr)
    \/ \E u \in Users, message_id \in AssignedIds, category_id \in AssignedIds :
           /\ Len(category_assignments) < MaxAssignments
           /\ assign_category(u, message_id, category_id)
    \/ \E u \in Users : Return(u)

SpecAssign == InitAssign /\ [][NextAssign]_vars

\* concurrent upserts: the two users' calls overlap; save_messages runs
\* statement by statement, save_meetings and create_category in one step
\* each (their first statement takes the write lock and they hold it to the
\* commit)
InitConcurrent == EmptyStore /\ provider = "mock" /\ gateway_budget = MaxAiCalls

\* the INSERT statements executed so far, over the three tables
InsertsExecuted ==
    sqlite_sequence.messages + sqlite_sequence.meetings + sqlite_sequence.categories

ConcurrentBatches == {<<MsgA>>, <<MsgB>>, <<MsgB, MsgA>>}

NextConcurrent ==
    \/ \E u \in Users, batch \in ConcurrentBatches :
           InsertsExecuted + Len(batch) <= MaxRowId /\ ingest_messages_call(u, batch)
    \/ \E u \in Users : InsertsExecuted < MaxRowId /\ execute_insert(u)
    \/ \E u \in Users : execute_select(u)
    \/ \E u \in Users : connection_commit(u)
    \/ \E u \in Users, batch \in MeetingBatches :
           /\ InsertsExecuted + Len(batch) <= MaxRowId
           /\ WriteLockFree(u)
           /\ ingest_meetings(u, batch)
    \/ \E u \in Users, category \in SharedCategories :
           InsertsExecuted < MaxRowId /\ WriteLockFree(u) /\ create_category(u, category)
    \/ \E u \in Users : Return(u)

SpecConcurrent == InitConcurrent /\ [][NextConcurrent]_vars

\* overlapping AI operations: each user owns a message and asks for drafts
\* of replies to it while the other user's call is under way
InitOverlap ==
    EmptyStore /\ provider \in ScenarioProviders /\ gateway_budget = MaxExtractions

NextOverlap ==
    \/ \E in \in AuditIngestInputs :
           NoneRunning /\ NotStored(in[2]) /\ ingest_messages(in[1], <<in[2]>>)
    \/ \E u \in Users, message_id \in AssignedIds :
           draft_reply(u, message_id, TxtBrief)
    \/ \E u \in Users : generate_text(u)
    \/ \E u \in Users : generate_text_raises(u)
    \/ \E u \in Users : log_ai_request(u)
    \/ \E u \in Users : log_ai_response(u)
    \/ \E u \in Users : draft_reply_result(u)
    \/ \E u \in Users : Return(u)

SpecOverlap == InitOverlap /\ [][NextOverlap]_vars

\* OAuth: the application hands out state tokens and takes callbacks, with
\* any provider and any state, while the clock moves by a second or by the
\* lifetime of a state
MaxTicks == 3
MaxStates == 2
MaxConnections == 2

ClockSteps == {1, StateLifetime}

\* the steps the clock has made
Ticks == (now \div StateLifetime) + (now % StateLifetime)

CallbackProviders == OAuthProviders \cup {"other"}

InitOAuth == EmptyStore /\ provider = "mock" /\ gateway_budget = MaxAiCalls

NextOAuth ==
    \/ \E provider_name \in OAuthProviders :
           Cardinality(oauth_states) < MaxStates /\ oauth_start(1, provider_name)
    \/ \E provider_name \in CallbackProviders, state \in 1..(MaxStates + 1) :
           Len(connections) < MaxConnections /\ oauth_callback(1, provider_name, "abc", state)
    \/ \E seconds \in ClockSteps : Ticks < MaxTicks /\ tick(seconds)
    \/ Return(1)

SpecOAuth == InitOAuth /\ [][NextOAuth]_vars

\* Tokens: both users store, load and use the tokens of a provider while
\* the clock moves; a token expires at a time near the window, far from it,
\* or at no time that can be read
TokA == <<97, 49>>
TokB == <<98, 50>>
TokR == <<114, 49>>
TokS == <<114, 50, 120>>

\* the lifetime a token endpoint grants
ExpiresIn == 600

StoredExpiries ==
    {NoExpiry, NotIsoFormat, isoformat(RefreshWindow), isoformat(RefreshWindow + 1),
     isoformat_utc(RefreshWindow + ExpiresIn)}

\* refresh_oauth_token: OAuthTokenResult.from_response of the provider's
\* payload, with or without a refresh token and a lifetime, or an error
RefreshResults ==
    {[ok |-> TRUE, access_token |-> TokB, refresh_token |-> r, expires_at |-> e] :
         r \in {None, TokS}, e \in {NoExpiry, isoformat(now + ExpiresIn)}}
    \cup {[ok |-> FALSE, access_token |-> <<>>, refresh_token |-> None,
           expires_at |-> NoExpiry]}

InitTokens == EmptyStore /\ provider = "mock" /\ gateway_budget = MaxAiCalls

NextTokens ==
    \/ \E u \in Users, refresh_token \in {None, TokR}, expires_at \in StoredExpiries :
           NoneRunning /\ store_tokens(u, "google", TokA, refresh_token, expires_at)
    \/ \E u \in Users : NoneRunning /\ load_tokens(u, "google")
    \/ \E u \in Users, token_result \in RefreshResults :
           NoneRunning /\ get_access_token(u, "google", token_result)
    \/ \E seconds \in ClockSteps : NoneRunning /\ Ticks < MaxTicks /\ tick(seconds)
    \/ \E u \in Users : Return(u)

SpecTokens == InitTokens /\ [][NextTokens]_vars

----------------------------------------------------------------------------
(* Claims *)

IngestDone(u) == call[u].pc = "done" /\ call[u].op = "ingest_messages"

\* C1: ingesting a provider_message_id that is already stored adds no row
\* and returns the id of the row that holds it, which is the id its first
\* ingestion returned: no two rows share a provider_message_id, and every
\* finished ingest_messages call returns, for each message of its batch, the
\* id of the row with that provider_message_id.
C1_IdempotentIngestion ==
    /\ \A i, j \in DOMAIN messages :
           messages[i].provider_message_id = messages[j].provider_message_id => i = j
    /\ \A u \in Users :
           IngestDone(u) =>
               /\ Len(call[u].value) = Len(call[u].arg)
               /\ \A i \in DOMAIN call[u].arg :
                      \E k \in DOMAIN messages :
                          /\ messages[k].id = call[u].value[i]
                          /\ messages[k].provider_message_id
                                 = call[u].arg[i].provider_message_id

\* s[i..j] is a keyword: a maximal non-empty run of word characters
IsKeywordAt(s, i, j) ==
    /\ i <= j
    /\ \A k \in i..j : IsWord(s[k])
    /\ i = 1 \/ ~IsWord(s[i - 1])
    /\ j = Len(s) \/ ~IsWord(s[j + 1])

\* some keyword of lower(name + " " + description) is a substring of
\* lower(subject + " " + body)
KeywordMatches(category, message) ==
    LET kw == Lower(category.name \o <<32>> \o
                    (IF category.description = None THEN <<>> ELSE category.description))
        text == Lower(message.subject \o <<32>> \o message.body)
    IN  \E i, j \in DOMAIN kw :
            /\ IsKeywordAt(kw, i, j)
            /\ \E k \in 0..(Len(text) - (j - i + 1)) :
                   \A d \in 0..(j - i) : text[k + 1 + d] = kw[i + d]

SuggestCall(u) == call[u].op = "suggest_categories_ai"

SuggestDone(u) == call[u].pc = "done" /\ SuggestCall(u)

\* the call went through the gateway and returned a result
SuggestAnswered(u) == SuggestDone(u) /\ call[u].status = "ok" /\ call[u].categories # <<>>

\* what the rules give: the categories with a matching keyword, in list order
RuleResult(message, cats) == SelectSeq(cats, LAMBDA c : KeywordMatches(c, message))

\* C2: with the mock provider suggest_categories_ai returns, for a stored
\* message and a non-empty category list, exactly what
\* RuleBasedClassifier.suggest returns for them.
C2_MockGivesRuleResult ==
    \A u \in Users :
        (SuggestAnswered(u) /\ provider = "mock") =>
            call[u].value = suggest(call[u].message, call[u].categories)

RankDone(u) == call[u].pc = "done" /\ call[u].op = "rank_messages"

\* some keyword of the list occurs in lower(subject + " " + body)
SomeKeywordIn(keywords, message) ==
    LET text == Lower(message.subject \o <<32>> \o message.body)
    IN  \E n \in DOMAIN keywords :
            \E k \in 0..(Len(text) - Len(keywords[n])) :
                \A d \in 1..Len(keywords[n]) : text[k + d] = keywords[n][d]

Indicator(b) == IF b THEN 1 ELSE 0

\* the stored message an entry of the ranking is about
MessageOf(entry) == messages[CHOOSE k \in DOMAIN messages : messages[k].id = entry.id]

\* C11: every entry of a finished rank_messages call has score = 2 * [some
\* high keyword is a substring of lower(subject + " " + body)] + [some medium
\* keyword is one], so the score is in 0..3, and priority "high" iff score >= 2,
\* "medium" iff score = 1, "low" iff score = 0; with both lists empty every
\* entry scores 0 and is "low".
C11_TriageScore ==
    \A u \in Users :
        RankDone(u) =>
            \A i \in DOMAIN call[u].value :
                LET entry == call[u].value[i]
                    config == call[u].arg
                IN  /\ \E k \in DOMAIN messages : messages[k].id = entry.id
                    /\ entry.score =
                           2 * Indicator(SomeKeywordIn(config.high_keywords, MessageOf(entry)))
                           + Indicator(SomeKeywordIn(config.medium_keywords, MessageOf(entry)))
                    /\ entry.score \in 0..3
                    /\ entry.priority = "high" <=> entry.score >= 2
                    /\ entry.priority = "medium" <=> entry.score = 1
                    /\ entry.priority = "low" <=> entry.score = 0
                    /\ (config.high_keywords = <<>> /\ config.medium_keywords = <<>>) =>
                           entry.score = 0 /\ entry.priority = "low"

\* one ranking holds a message of score 3 and a message of score 1
C11_Witness ==
    \E u \in Users :
        /\ RankDone(u)
        /\ \E i, j \in DOMAIN call[u].value :
               /\ call[u].value[i].score = 3
               /\ call[u].value[i].priority = "high"
               /\ call[u].value[j].score = 1
               /\ call[u].value[j].priority = "medium"

\* the messages of user u, and how many of them a limit lets through
OwnMessages(u) == {k \in DOMAIN messages : messages[k].user_id = u}

\* the entries are about distinct messages of u, newest first, and no
\* message of u left out is newer than one that is in
InRecencyOrder(u) ==
    LET value == call[u].value
    IN  /\ \A i \in DOMAIN value :
               \E k \in OwnMessages(u) : messages[k].id = value[i].id
        /\ \A i, j \in DOMAIN value :
               i < j => MessageOf(value[i]).timestamp > MessageOf(value[j]).timestamp
        /\ \A k \in OwnMessages(u) :
               (\A i \in DOMAIN value : value[i].id # messages[k].id) =>
                   \A i \in DOMAIN value :
                       MessageOf(value[i]).timestamp > messages[k].timestamp

\* C12 as claimed: a finished rank_messages(limit) call has one entry per
\* message of the user, newest first and never re-sorted by score, and at
\* most limit entries.
C12_RecencyOrderAtMostLimit ==
    \A u \in Users :
        RankDone(u) =>
            /\ InRecencyOrder(u)
            /\ call[u].value # <<>> => Len(call[u].value) <= call[u].arg.limit

\* C12 amended: a finished rank_messages(limit) call has one entry per
\* message of the user, newest first and never re-sorted by score; for
\* limit >= 0 it has min(limit, number of the user's messages) entries, and
\* for a negative limit it has one entry for every message of the user.
C12_RecencyOrder ==
    \A u \in Users :
        RankDone(u) =>
            /\ InRecencyOrder(u)
            /\ call[u].arg.limit >= 0 =>
                   Len(call[u].value) = Min(call[u].arg.limit, Cardinality(OwnMessages(u)))
            /\ call[u].arg.limit < 0 =>
                   Len(call[u].value) = Cardinality(OwnMessages(u))

\* a newer message of lower score precedes an older one of higher score
C12_Witness ==
    \E u \in Users :
        /\ RankDone(u)
        /\ Len(call[u].value) = 2
        /\ call[u].value[1].score < call[u].value[2].score
        /\ MessageOf(call[u].value[1]).timestamp > MessageOf(call[u].value[2]).timestamp

\* the gateway invocations that returned a text, in the order they returned
SuccessfulInvocations == SelectSeq(invocations, LAMBDA v : v.ok)

\* the calls that hold a returned text and have not written the row yet
WritingRequest == {u \in Users : call[u].pc = "log_ai_request"}

WritingResponse == {u \in Users : call[u].pc = "log_ai_response"}

\* C3: for every gateway invocation that returned successfully inside one of
\* the eight operations, once the operation has written its audit rows there
\* is exactly one AiRequest for it (its user, prompt and purpose) and exactly
\* one AiResponse (its text), and the AiResponse's request_id is the id of
\* that AiRequest; no other AiRequest or AiResponse exists.
C3_AuditCompleteness ==
    (WritingRequest = {} /\ WritingResponse = {}) =>
        /\ Len(ai_requests) = Len(SuccessfulInvocations)
        /\ Len(ai_responses) = Len(SuccessfulInvocations)
        /\ \A k \in DOMAIN SuccessfulInvocations :
               LET v == SuccessfulInvocations[k]
                   requests == {i \in DOMAIN ai_requests :
                                    /\ ai_requests[i].id = k
                                    /\ ai_requests[i].user_id = v.user
                                    /\ ai_requests[i].prompt = v.prompt
                                    /\ ai_requests[i].purpose = v.purpose}
                   responses == {j \in DOMAIN ai_responses :
                                     ai_responses[j].request_id = k}
               IN  /\ Cardinality(requests) = 1
                   /\ Cardinality(responses) = 1
                   /\ \A j \in responses : ai_responses[j].response_text = v.text

AuditedOperations ==
    {"suggest_categories_ai", "answer", "draft_reply", "summarize_message",
     "suggest_follow_up", "extract_tasks_from_message", "extract_tasks_from_meeting",
     "summarize_meeting"}

\* an extraction from a meeting has returned and the log holds the one
\* AiRequest and the one AiResponse of its invocation
C3_Witness ==
    /\ call[1].pc = "done"
    /\ call[1].status = "ok"
    /\ call[1].op = "extract_tasks_from_meeting"
    /\ call[1].request_id = Len(ai_requests)
    /\ Len(ai_requests) = Len(SuccessfulInvocations)
    /\ Len(ai_responses) = Len(ai_requests)
    /\ Len(ai_requests) >= 1

\* the step of a call in which the operation uses the text the gateway
\* returned: it returns its result, having asked the gateway
UsesResponse(u) ==
    /\ call[u].pc # "done"
    /\ call'[u].pc = "done"
    /\ call'[u].status = "ok"
    /\ call'[u].purpose # "none"

\* the rows of the audit log that belong to the call of u
RequestPersisted(u) ==
    \E i \in DOMAIN ai_requests :
        /\ ai_requests[i].id = call[u].request_id
        /\ ai_requests[i].prompt = call[u].prompt

ResponsePersisted(u) ==
    \E j \in DOMAIN ai_responses :
        /\ ai_responses[j].request_id = call[u].request_id
        /\ ai_responses[j].response_text = call[u].text

\* C4: within one operation the AiRequest is persisted before its
\* AiResponse (a step that adds an AiResponse finds the AiRequest it names
\* already stored), and both are persisted before the operation uses the
\* response (a step that returns the operation's result, or adds a Task or a
\* Note, finds both rows of the acting call already stored).
C4_RequestThenResponseThenUse ==
    [][/\ \A j \in DOMAIN ai_responses' :
              j \notin DOMAIN ai_responses =>
                  \E i \in DOMAIN ai_requests :
                      ai_requests[i].id = ai_responses'[j].request_id
       /\ \A u \in Users :
              UsesResponse(u) => RequestPersisted(u) /\ ResponsePersisted(u)
       /\ (tasks' # tasks \/ notes' # notes) =>
              \E u \in Users :
                  UsesResponse(u) /\ RequestPersisted(u) /\ ResponsePersisted(u)]_vars

\* an extraction wrote two tasks after both audit rows
C4_Witness ==
    /\ call[1].pc = "done"
    /\ call[1].op = "extract_tasks_from_message"
    /\ Len(call[1].value) = 2
    /\ Len(tasks) >= 2
    /\ \E i \in DOMAIN ai_requests, j \in DOMAIN ai_responses :
           /\ ai_requests[i].id = call[1].request_id
           /\ ai_responses[j].request_id = call[1].request_id

\* an AiRequest with the user, purpose and prompt of invocation v is stored
HasRequest(v) ==
    \E i \in DOMAIN ai_requests :
        /\ ai_requests[i].user_id = v.user
        /\ ai_requests[i].purpose = v.purpose
        /\ ai_requests[i].prompt = v.prompt

\* C5 as claimed: once the outcome of a gateway invocation (a returned text
\* or a failure) has reached the operation, the AiRequest for that prompt is
\* persisted.
C5_RequestPersistedAtOutcome ==
    \A k \in DOMAIN invocations : HasRequest(invocations[k])

\* C5 amended: the AiRequest is persisted only after the gateway has returned
\* a text: the AiRequests are exactly those of the invocations that returned
\* successfully, apart from the calls that hold a returned text and are about
\* to write theirs, and an operation whose invocation failed ends with
\* neither an AiRequest nor an AiResponse of its own.
C5_RequestPersistedAfterSuccess ==
    /\ Len(ai_requests) = Len(SuccessfulInvocations) - Cardinality(WritingRequest)
    /\ \A i \in DOMAIN ai_requests :
           /\ ai_requests[i].user_id = SuccessfulInvocations[i].user
           /\ ai_requests[i].prompt = SuccessfulInvocations[i].prompt
    /\ Len(ai_responses) <= Len(ai_requests)
    /\ \A u \in Users :
           (call[u].pc = "done" /\ call[u].status = "RuntimeError") =>
               call[u].request_id = 0

\* an invocation failed and the audit log holds nothing of it
C5_Witness ==
    /\ call[1].pc = "done"
    /\ call[1].status = "RuntimeError"
    /\ call[1].op \in AuditedOperations
    /\ Len(invocations) = 1
    /\ ~invocations[1].ok
    /\ ai_requests = <<>>
    /\ ai_responses = <<>>


ExtractOps == {"extract_tasks_from_message", "extract_tasks_from_meeting"}

ParentType(op) == IF op = "extract_tasks_from_message" THEN "message" ELSE "meeting"

\* the lines of a response stripped of surrounding whitespace and leading
\* dashes, those that are empty then left out
CleanedLines(text) ==
    SelectSeq([i \in DOMAIN SplitLines(text) |->
                   Strip(LStripDash(Strip(SplitLines(text)[i])))],
              LAMBDA line : line # <<>>)

\* the step in which an extraction of user u returns
ExtractionReturns(u) ==
    /\ call[u].pc # "done"
    /\ call'[u].pc = "done"
    /\ call'[u].op \in ExtractOps
    /\ call'[u].status = "ok"

\* the step adds one Task per cleaned line, in line order, for the source of
\* the call, and returns their ids in that order
OneTaskPerCleanedLine(u) ==
    LET lines == CleanedLines(call[u].text)
    IN  /\ Len(tasks') = Len(tasks) + Len(lines)
        /\ SubSeq(tasks', 1, Len(tasks)) = tasks
        /\ Len(call'[u].value) = Len(lines)
        /\ \A i \in DOMAIN lines :
               LET task == tasks'[Len(tasks) + i]
               IN  /\ call'[u].value[i] = task.id
                   /\ task.description = lines[i]
                   /\ task.parent_type = ParentType(call[u].op)
                   /\ task.parent_id = call[u].arg
                   /\ task.user_id = u
        /\ \A i, j \in DOMAIN tasks' : tasks'[i].id = tasks'[j].id => i = j

OnlyDashesAndWhitespace(line) == \A i \in DOMAIN line : line[i] = 45 \/ IsSpace(line[i])

\* whitespace, then dashes, then whitespace: no dash after a dash and a gap
DashesInOneRun(line) ==
    /\ OnlyDashesAndWhitespace(line)
    /\ ~\E i, j, k \in DOMAIN line :
           i < j /\ j < k /\ line[i] = 45 /\ IsSpace(line[j]) /\ line[k] = 45

\* C13 as claimed: an extraction creates exactly one Task per response line
\* that is non-empty once cleaned, in line order, with the cleaned line as
\* description and the source as parent, and returns their ids in order;
\* a line of only dashes and whitespace creates no Task.
C13_OneTaskPerLine ==
    [][\A u \in Users :
           ExtractionReturns(u) =>
               /\ OneTaskPerCleanedLine(u)
               /\ \A i \in DOMAIN SplitLines(call[u].text) :
                      OnlyDashesAndWhitespace(SplitLines(call[u].text)[i]) =>
                          CleanedLines(SplitLines(call[u].text)[i]) = <<>>]_vars

\* C13 amended: the same, and a line that is blank or is whitespace, dashes
\* and whitespace in that order creates no Task (a line such as "- -", with a
\* dash after the gap, is cleaned to "-" and creates a Task).
C13_OneTaskPerCleanedLine ==
    [][\A u \in Users :
           ExtractionReturns(u) =>
               /\ OneTaskPerCleanedLine(u)
               /\ \A i \in DOMAIN SplitLines(call[u].text) :
                      DashesInOneRun(SplitLines(call[u].text)[i]) =>
                          CleanedLines(SplitLines(call[u].text)[i]) = <<>>]_vars

\* an extraction from a response with a bulleted line, a blank line, a line
\* of dashes and a padded line has returned two tasks
C13_Witness ==
    /\ call[1].pc = "done"
    /\ call[1].op \in ExtractOps
    /\ call[1].text = ReplySendCall
    /\ Len(call[1].value) = 2
    /\ tasks[Len(tasks)].description = <<67, 97, 108, 108>>

RECURSIVE Flatten(_)
Flatten(seqs) == IF seqs = <<>> THEN <<>> ELSE Head(seqs) \o Flatten(Tail(seqs))

\* the extractions of one source whose invocation returned, oldest first
ExtractionsOf(op, source) ==
    SelectSeq(SuccessfulInvocations, LAMBDA v : v.op = op /\ v.arg = source)

\* the descriptions of the tasks of one parent, in table order
DescriptionsOf(parent_type, parent_id) ==
    LET rows == SelectSeq(tasks, LAMBDA task :
                    task.parent_type = parent_type /\ task.parent_id = parent_id)
    IN  [i \in DOMAIN rows |-> rows[i].description]

Sources == (1..MaxRowId) \cup MeetingIds

\* no call holds a response it has not used yet
NoneUsing ==
    \A u \in Users : call[u].pc \notin {"log_ai_request", "log_ai_response", "use_response"}

\* C14: extraction is append-only and not idempotent: between calls, the
\* tasks of a parent are the cleaned lines of every extraction run on it, one
\* copy per run, so k runs with one response of n cleaned lines leave k * n
\* tasks; and no step removes or alters a Task.
C14_AppendOnlyExtraction ==
    /\ [](NoneUsing =>
            \A op \in ExtractOps, source \in Sources :
                LET runs == ExtractionsOf(op, source)
                    found == DescriptionsOf(ParentType(op), source)
                IN  /\ found = Flatten([k \in DOMAIN runs |-> CleanedLines(runs[k].text)])
                    /\ (\A k \in DOMAIN runs : runs[k].text = runs[1].text) =>
                           Len(found) = Len(runs) * Len(CleanedLines(
                                            IF runs = <<>> THEN <<>> ELSE runs[1].text)))
    /\ [][\A i \in DOMAIN tasks : i \in DOMAIN tasks' /\ tasks'[i] = tasks[i]]_vars

\* two runs on one message with the same response left two copies of its tasks
C14_Witness ==
    LET runs == ExtractionsOf("extract_tasks_from_message", 1)
    IN  /\ NoneUsing
        /\ Len(runs) = 2
        /\ runs[1].text = runs[2].text
        /\ Len(CleanedLines(runs[1].text)) >= 1
        /\ Len(DescriptionsOf("message", 1)) = 2 * Len(CleanedLines(runs[1].text))
        /\ call[1].pc = "done"

SummaryOps == {"summarize_message", "summarize_meeting"}

\* the step in which a call of user u to one of the operations returns
Returns(u, ops) ==
    /\ call[u].pc # "done"
    /\ call'[u].pc = "done"
    /\ call'[u].op \in ops
    /\ call'[u].status = "ok"

\* C15: each successful summarize_message or summarize_meeting call adds
\* exactly one Note, whose content is the raw response text and whose parent
\* is the source message ("message") or meeting ("meeting"), returns that
\* Note's id, and creates no Task.
C15_SummaryIsOneNote ==
    [][\A u \in Users :
           Returns(u, SummaryOps) =>
               /\ Len(notes') = Len(notes) + 1
               /\ SubSeq(notes', 1, Len(notes)) = notes
               /\ notes'[Len(notes')].content = call[u].text
               /\ notes'[Len(notes')].parent_type =
                      (IF call[u].op = "summarize_message" THEN "message" ELSE "meeting")
               /\ notes'[Len(notes')].parent_id = call[u].arg
               /\ notes'[Len(notes')].user_id = u
               /\ call'[u].value = notes'[Len(notes')].id
               /\ \A i \in DOMAIN notes : notes[i].id # call'[u].value
               /\ tasks' = tasks]_vars

\* a meeting summary of several lines is stored whole as one note
C15_Witness ==
    /\ call[1].pc = "done"
    /\ call[1].op = "summarize_meeting"
    /\ call[1].status = "ok"
    /\ Len(notes) = 1
    /\ notes[1].id = call[1].value
    /\ notes[1].parent_type = "meeting"
    /\ notes[1].content = call[1].text
    /\ Len(SplitLines(notes[1].content)) > 1
    /\ tasks = <<>>

FollowUpDone(u) ==
    call[u].pc = "done" /\ call[u].op = "suggest_follow_up" /\ call[u].status = "ok"

\* C16 as claimed: each successful suggest_follow_up call has persisted the
\* raw response as a Note attached to the source message.
C16_FollowUpIsNote ==
    \A u \in Users :
        FollowUpDone(u) =>
            \E i \in DOMAIN notes :
                /\ notes[i].parent_type = "message"
                /\ notes[i].parent_id = call[u].arg
                /\ notes[i].content = call[u].text

\* C16 amended: each successful suggest_follow_up call returns the raw
\* response text and writes neither a Note nor a Task.
C16_FollowUpIsReturned ==
    [][\A u \in Users :
           Returns(u, {"suggest_follow_up"}) =>
               /\ notes' = notes
               /\ tasks' = tasks
               /\ call'[u].value = call[u].text]_vars

\* a follow-up of several lines was returned and no note exists
C16_Witness ==
    /\ FollowUpDone(1)
    /\ call[1].value = call[1].text
    /\ Len(SplitLines(call[1].value)) > 1
    /\ notes = <<>>

MeetingOps == {"extract_tasks_from_meeting", "summarize_meeting"}

\* the meeting is a meeting of user u and a transcript is stored for it
MeetingWithTranscriptOf(u, meeting_id) ==
    /\ \E i \in DOMAIN meetings :
           meetings[i].id = meeting_id /\ meetings[i].user_id = u
    /\ get_meeting_transcript(meeting_id) # NoRow

\* the step in which user u calls one of the operations
Calls(u, ops) ==
    /\ call[u].pc = "idle"
    /\ call'[u].pc # "idle"
    /\ call'[u].op \in ops

\* C17: extract_tasks_from_meeting and summarize_meeting called for user u
\* fail with NotFound, with no AI call and no Task or Note written, whenever
\* the meeting or its transcript does not exist for user u, another user's
\* meeting with a stored transcript included.
C17_MeetingNotFoundForUser ==
    [][\A u \in Users :
           (Calls(u, MeetingOps) /\ ~MeetingWithTranscriptOf(u, call'[u].arg)) =>
               /\ call'[u].pc = "done"
               /\ call'[u].status = "NotFound"
               /\ invocations' = invocations
               /\ tasks' = tasks
               /\ notes' = notes]_vars

\* the step in which the gateway call of user u's operation fails
GatewayFails(u) ==
    /\ Len(invocations') = Len(invocations) + 1
    /\ invocations'[Len(invocations')].user = u
    /\ ~invocations'[Len(invocations')].ok

\* C18: when the gateway call of an operation fails, the operation ends with
\* that failure at once (no second gateway call), writes no Task, Note or
\* other record, and returns nothing.
C18_FailureIsAllOrNothing ==
    [][\A u \in Users :
           GatewayFails(u) =>
               /\ call'[u].pc = "done"
               /\ call'[u].op = call[u].op
               /\ call'[u].status = "RuntimeError"
               /\ call'[u].value = <<>>
               /\ store' = store]_vars

\* a task extraction failed at the gateway and left the store empty but for
\* the message
C18_Witness ==
    /\ call[1].pc = "done"
    /\ call[1].op = "extract_tasks_from_message"
    /\ call[1].status = "RuntimeError"
    /\ invocations # <<>>
    /\ ~invocations[Len(invocations)].ok
    /\ tasks = <<>>
    /\ notes = <<>>
    /\ ai_requests = <<>>

\* the owner recorded in the row of the table that has the id (0: no row)
OwnerOf(table, id) ==
    IF \E i \in DOMAIN table : table[i].id = id
    THEN table[CHOOSE i \in DOMAIN table : table[i].id = id].user_id
    ELSE 0

ReadDone(u, op) == call[u].pc = "done" /\ call[u].op = op

\* the notes of the parent that user u owns
NotesOf(u, parent) ==
    SelectSeq(notes, LAMBDA row : /\ row.user_id = u
                                  /\ row.parent_type = parent.parent_type
                                  /\ row.parent_id = parent.parent_id)

\* C19: a read with user id u returns only rows that u owns: the messages of
\* list_messages, the categories of list_categories and the tasks of
\* list_tasks are rows of u; list_notes returns no more notes than u owns for
\* the parent, each the content of one of them; a message that get_message
\* finds for u is u's, and the id of another user's message gives NotFound.
C19_ReadsAreIsolated ==
    \A u \in Users :
        /\ ReadDone(u, "list_messages") =>
               \A i \in DOMAIN call[u].value :
                   OwnerOf(messages, call[u].value[i].id) = u
        /\ ReadDone(u, "list_categories") =>
               \A i \in DOMAIN call[u].value :
                   OwnerOf(categories, call[u].value[i].id) = u
        /\ ReadDone(u, "list_tasks") =>
               \A i \in DOMAIN call[u].value :
                   OwnerOf(tasks, call[u].value[i].id) = u
        /\ ReadDone(u, "list_notes") =>
               /\ Len(call[u].value) <= Len(NotesOf(u, call[u].arg))
               /\ \A i \in DOMAIN call[u].value :
                      \E j \in DOMAIN NotesOf(u, call[u].arg) :
                          NotesOf(u, call[u].arg)[j].content = call[u].value[i].content
        /\ call[u].op = "draft_reply" =>
               /\ call[u].message # NoRow => OwnerOf(messages, call[u].message.id) = u
               /\ OwnerOf(messages, call[u].arg) \notin {0, u} =>
                      call[u].pc = "done" /\ call[u].status = "NotFound"

\* both users hold a task of message 1 and user 2 is given its own alone,
\* and user 2 owns a message
C19_Witness ==
    /\ ReadDone(2, "list_tasks")
    /\ Len(call[2].value) = 1
    /\ \E i, j \in DOMAIN tasks : tasks[i].user_id = 1 /\ tasks[j].user_id = 2
    /\ \E i \in DOMAIN messages : messages[i].user_id = 2

\* C20: create_category for user u returns the id of the row that u owns
\* with that name, other users' categories of the same name notwithstanding,
\* and no user holds two categories of one name.
C20_CreateCategoryReturnsOwnRow ==
    /\ \A u \in Users :
           ReadDone(u, "create_category") =>
               \E i \in DOMAIN categories :
                   /\ categories[i].id = call[u].value
                   /\ categories[i].user_id = u
                   /\ categories[i].name = call[u].arg.name
    /\ \A i, j \in DOMAIN categories :
           (categories[i].user_id = categories[j].user_id
                /\ categories[i].name = categories[j].name) => i = j

\* the step in which user u's call of assign_category returns
Assigns(u) ==
    /\ call[u].pc = "idle"
    /\ call'[u].pc = "done"
    /\ call'[u].op = "assign_category"

Linked(table, pair) ==
    \E i \in DOMAIN table :
        table[i].message_id = pair.message_id /\ table[i].category_id = pair.category_id

\* C21: each (message, category) pair is linked at most once, and assigning
\* a pair that is linked already changes no stored state and raises no error.
C21_AssignmentIsIdempotent ==
    [][/\ \A i, j \in DOMAIN category_assignments' :
              category_assignments'[i] = category_assignments'[j] => i = j
       /\ \A u \in Users :
              Assigns(u) =>
                  /\ call'[u].status = "ok"
                  /\ Linked(category_assignments', call'[u].arg)
                  /\ Linked(category_assignments, call'[u].arg) => store' = store]_vars

\* both users have assigned the same pair and it is linked once
C21_Witness ==
    /\ call[1].pc = "done" /\ call[1].op = "assign_category"
    /\ call[2].pc = "done" /\ call[2].op = "assign_category"
    /\ call[1].arg = call[2].arg
    /\ Len(category_assignments) = 1
    /\ Linked(category_assignments, call[1].arg)

\* C28: assign_category called for user u links only a message of u to a
\* category of u, and list_message_categories of a user's message holds no
\* category of another user.
C28_AssignmentWithinUser ==
    /\ [][\A u \in Users :
              (Assigns(u) /\ category_assignments' # category_assignments) =>
                  /\ OwnerOf(messages, call'[u].arg.message_id) = u
                  /\ OwnerOf(categories, call'[u].arg.category_id) = u]_vars
    /\ [](\A i \in DOMAIN messages :
              \A k \in DOMAIN list_message_categories(messages[i].id) :
                  OwnerOf(categories, list_message_categories(messages[i].id)[k].id)
                      = messages[i].user_id)

\* the id of user u's category of the name (0: no row)
OwnCategoryId(u, name) ==
    IF \E i \in DOMAIN categories : categories[i].user_id = u /\ categories[i].name = name
    THEN categories[CHOOSE i \in DOMAIN categories :
                        categories[i].user_id = u /\ categories[i].name = name].id
    ELSE 0

\* C22: however the upserts of two callers interleave, one row holds each
\* natural key (provider_message_id, provider_event_id, category name and
\* user), and every finished call has returned, for each key it carried, the
\* id of that row.
C22_ConcurrentUpserts ==
    /\ \A i, j \in DOMAIN messages :
           messages[i].provider_message_id = messages[j].provider_message_id => i = j
    /\ \A i, j \in DOMAIN meetings :
           meetings[i].provider_event_id = meetings[j].provider_event_id => i = j
    /\ \A i, j \in DOMAIN categories :
           (categories[i].name = categories[j].name
                /\ categories[i].user_id = categories[j].user_id) => i = j
    /\ \A u \in Users :
           /\ ReadDone(u, "ingest_messages") =>
                  /\ Len(call[u].value) = Len(call[u].arg)
                  /\ \A i \in DOMAIN call[u].arg :
                         /\ call[u].value[i] # 0
                         /\ call[u].value[i] = message_id_by_provider_id(
                                messages, call[u].arg[i].provider_message_id)
           /\ ReadDone(u, "ingest_meetings") =>
                  /\ Len(call[u].value) = Len(call[u].arg)
                  /\ \A i \in DOMAIN call[u].arg :
                         /\ call[u].value[i] # 0
                         /\ call[u].value[i] = meeting_id_by_event_id(
                                meetings, call[u].arg[i].provider_event_id)
           /\ ReadDone(u, "create_category") =>
                  /\ call[u].value # 0
                  /\ call[u].value = OwnCategoryId(u, call[u].arg.name)

\* C23: a Message row never changes and never goes away: whatever the
\* operation, and in particular an ingestion that brings a stored
\* provider_message_id with other fields or for another user, every row of
\* the table stays as it is.
C23_MessagesAreImmutable ==
    [][/\ Len(messages') >= Len(messages)
       /\ \A i \in DOMAIN messages : messages'[i] = messages[i]]_vars

\* a stored message came again, from the other user and with another
\* subject, and the row kept its owner and its subject
C23_Witness ==
    \E u \in Users :
        /\ ReadDone(u, "ingest_messages")
        /\ \E i \in DOMAIN call[u].arg, k \in DOMAIN messages :
               /\ messages[k].provider_message_id = call[u].arg[i].provider_message_id
               /\ messages[k].subject # call[u].arg[i].subject
               /\ messages[k].user_id # u

\* C24: the token estimate of every persisted AiResponse is the quarter of
\* the length of its text, rounded down, and 1 for a text shorter than 4
\* characters, the empty one included: never 0.
C24_TokenEstimateFloor ==
    \A i \in DOMAIN ai_responses :
        LET n == Len(ai_responses[i].response_text)
            t == ai_responses[i].token_estimate
        IN  /\ t >= 1
            /\ n < 4 => t = 1
            /\ n >= 4 => (4 * t <= n /\ n < 4 * t + 4)

\* the response to a gateway call that returned the empty text is stored
\* with an estimate of 1
C24_Witness ==
    \E i \in DOMAIN ai_responses :
        /\ ai_responses[i].response_text = <<>>
        /\ ai_responses[i].token_estimate = 1

\* C26: one save_messages call returns one id per message of its batch, in
\* the order of the batch, the i-th being the id of the row that holds the
\* i-th message's provider_message_id, also when a message not yet stored
\* comes before a stored one.
C26_OneIdPerMessageInOrder ==
    \A u \in Users :
        ReadDone(u, "ingest_messages") =>
            /\ Len(call[u].value) = Len(call[u].arg)
            /\ \A i \in DOMAIN call[u].arg :
                   call[u].value[i] =
                       message_id_by_provider_id(messages,
                                                 call[u].arg[i].provider_message_id)

\* C27: every id that ingest_messages returns to user u is the id of a
\* message that u owns and that holds the ingested provider_message_id,
\* also when another user ingested that provider_message_id before.
C27_ReturnedIdsAreOwn ==
    \A u \in Users :
        ReadDone(u, "ingest_messages") =>
            \A i \in DOMAIN call[u].value :
                /\ get_message(call[u].value[i], u) # NoRow
                /\ i \in DOMAIN call[u].arg =>
                       get_message(call[u].value[i], u).provider_message_id
                           = call[u].arg[i].provider_message_id

\* the AiRequest rows with the id
RequestsWithId(id) == {i \in DOMAIN ai_requests : ai_requests[i].id = id}

\* the response text is what a gateway call of the request's user returned
\* for the request's prompt
AnswersRequest(response, request) ==
    \E k \in DOMAIN invocations :
        /\ invocations[k].ok
        /\ invocations[k].user = request.user_id
        /\ invocations[k].prompt = request.prompt
        /\ invocations[k].purpose = request.purpose
        /\ invocations[k].text = response.response_text

\* C29: however AI operations overlap, every AiResponse refers to one
\* AiRequest, which was stored before it by the same operation for the
\* prompt that the response answers, and no AiRequest has two AiResponses.
C29_ResponsePairedWithRequest ==
    /\ [](/\ \A i \in DOMAIN ai_responses :
                 /\ Cardinality(RequestsWithId(ai_responses[i].request_id)) = 1
                 /\ \A q \in RequestsWithId(ai_responses[i].request_id) :
                        AnswersRequest(ai_responses[i], ai_requests[q])
          /\ \A i, j \in DOMAIN ai_responses :
                 ai_responses[i].request_id = ai_responses[j].request_id => i = j)
    /\ [][\A u \in Users :
              (call[u].pc = "log_ai_response" /\ call'[u].pc = "use_response") =>
                  /\ Len(ai_responses') = Len(ai_responses) + 1
                  /\ ai_responses'[Len(ai_responses')].request_id = call[u].request_id
                  /\ \E q \in RequestsWithId(call[u].request_id) :
                         /\ ai_requests[q].user_id = u
                         /\ ai_requests[q].prompt = call[u].prompt]_vars

\* the two users' operations overlapped: user 2 stored its request after
\* user 1's and its response before user 1's
C29_Witness ==
    /\ Len(ai_requests) = 2
    /\ Len(ai_responses) = 2
    /\ ai_requests[1].user_id = 1 /\ ai_requests[2].user_id = 2
    /\ ai_responses[1].request_id = 2
    /\ ai_responses[2].request_id = 1
    /\ ai_requests[1].prompt # ai_requests[2].prompt

\* the step in which a callback of user u is honoured
CallbackHonoured(u) ==
    /\ call[u].pc = "idle"
    /\ call'[u].pc = "done"
    /\ call'[u].op = "oauth_callback"
    /\ call'[u].status = "ok"

\* the state was issued by the endpoint of the provider, not more than ten
\* minutes before utcnow
Issued(states, utcnow, provider_name, state) ==
    \E record \in states :
        /\ record.state = state
        /\ record.provider = provider_name
        /\ record.created_at <= utcnow
        /\ utcnow - record.created_at <= StateLifetime

\* the callback was honoured for a state that is genuine, and recorded one
\* connection for the provider
HonouredOnlyIfIssued(u) ==
    /\ call'[u].arg.provider \in OAuthProviders
    /\ Issued(oauth_states, now, call'[u].arg.provider, call'[u].arg.state)
    /\ Len(connections') = Len(connections) + 1
    /\ connections'[Len(connections')].provider_name = call'[u].arg.provider

\* C30 as claimed: a callback is honoured only for a state that the
\* provider's endpoint issued not more than 10 minutes earlier, and once: a
\* state that was honoured is honoured no more.
C30_StateHonouredOnce ==
    [][\A u \in Users :
           CallbackHonoured(u) =>
               /\ HonouredOnlyIfIssued(u)
               /\ ~Issued(oauth_states', now', call'[u].arg.provider,
                          call'[u].arg.state)]_vars

\* C30 amended: a callback is honoured only for a state that the provider's
\* endpoint issued not more than 10 minutes earlier; it leaves the state
\* registered, so the same state is honoured again, and records a further
\* connection, until the 10 minutes are over; a callback that is rejected
\* records nothing.
C30_StateHonouredWhileFresh ==
    [][\A u \in Users :
           /\ CallbackHonoured(u) =>
                  /\ HonouredOnlyIfIssued(u)
                  /\ oauth_states' = oauth_states
                  /\ Issued(oauth_states', now', call'[u].arg.provider, call'[u].arg.state)
           /\ (call[u].pc = "idle" /\ call'[u].op = "oauth_callback") =>
                  /\ call'[u].status = "ok" <=>
                         (/\ call'[u].arg.provider \in OAuthProviders
                          /\ Issued(oauth_states, now, call'[u].arg.provider,
                                    call'[u].arg.state))
                  /\ call'[u].status # "ok" => connections' = connections]_vars

\* one state was issued and two callbacks with it were honoured, the second
\* exactly ten minutes after the state was issued
C30_Witness ==
    /\ Cardinality(oauth_states) = 1
    /\ Len(connections) = 2
    /\ call[1].pc = "done" /\ call[1].op = "oauth_callback" /\ call[1].status = "ok"
    /\ \E record \in oauth_states :
           /\ record.state = call[1].arg.state
           /\ now - record.created_at = StateLifetime

\* the step in which get_access_token of user u runs
GetsAccessToken(u) ==
    /\ call[u].pc = "idle"
    /\ call'[u].pc = "done"
    /\ call'[u].op = "get_access_token"

\* the expiry is a time, with or without an offset, that is more than the
\* window ahead of utcnow
ExpiresLater(expires_at, utcnow) ==
    /\ expires_at.iso \in {"naive", "aware"}
    /\ expires_at.seconds > utcnow + RefreshWindow

\* the expiry is a time that is past, or within the window
ExpiresWithinWindow(expires_at, utcnow) ==
    /\ expires_at.iso \in {"naive", "aware"}
    /\ expires_at.seconds <= utcnow + RefreshWindow

\* C25: get_access_token returns the stored token and leaves the storage
\* alone when the stored expiry is absent, unparsable or more than 60 seconds
\* ahead; when the expiry is within 60 seconds or past and a refresh token is
\* stored, it returns the refreshed access token and load_tokens then yields
\* that token, its expiry and the refresh token (the previous one if the
\* provider returned none); when a refresh is needed and no refresh token is
\* stored, it raises and leaves the storage alone.
C25_AccessTokenRefresh ==
    [][\A u \in Users :
           LET record == get_oauth_token(oauth_tokens, u, call'[u].arg.provider_name)
               tokens == loaded_tokens(record)
               token_result == call'[u].arg.token_result
               after == loaded_tokens(get_oauth_token(oauth_tokens', u,
                                                      call'[u].arg.provider_name))
           IN  (GetsAccessToken(u) /\ record.id # 0) =>
                   /\ (\/ record.expires_at \in {NoExpiry, NotIsoFormat}
                       \/ ExpiresLater(record.expires_at, now)) =>
                          /\ oauth_tokens' = oauth_tokens
                          /\ call'[u].status = "ok"
                          /\ call'[u].value = tokens.access_token
                   /\ (/\ ExpiresWithinWindow(record.expires_at, now)
                       /\ tokens.refresh_token # None
                       /\ token_result.ok) =>
                          /\ call'[u].status = "ok"
                          /\ call'[u].value = token_result.access_token
                          /\ after.access_token = token_result.access_token
                          /\ after.expires_at = token_result.expires_at
                          /\ after.refresh_token =
                                 IF token_result.refresh_token = None
                                 THEN tokens.refresh_token
                                 ELSE token_result.refresh_token
                   /\ (/\ ExpiresWithinWindow(record.expires_at, now)
                       /\ tokens.refresh_token = None) =>
                          /\ oauth_tokens' = oauth_tokens
                          /\ call'[u].status = "ValueError"]_vars

OwnsMessage(u, message_id) ==
    \E i \in DOMAIN messages : messages[i].id = message_id /\ messages[i].user_id = u

AuditUnchanged == UNCHANGED <<category_assignments, oauth_tokens, connections, oauth_states, now,
                   meetings, invocations, ai_requests, ai_responses>>

\* C6: suggest_categories_ai fails with NotFound exactly when the id is not
\* that of a message the caller owns (no such id, or another user's message),
\* and that call invokes no gateway and writes no AiRequest or AiResponse.
C6_NotFound ==
    /\ [](\A u \in Users :
             (SuggestCall(u) /\ call[u].pc # "idle") =>
                 (call[u].status = "NotFound" <=> ~OwnsMessage(u, call[u].arg)))
    /\ [][\A u \in Users :
             (SuggestCall(u)' /\ call'[u].status = "NotFound" /\ call'[u] # call[u]) =>
                 /\ call[u].pc = "idle"
                 /\ call'[u].pc = "done"
                 /\ AuditUnchanged]_vars

\* user 1 asked for a message that user 2 owns and got NotFound
C6_Witness ==
    /\ SuggestDone(1)
    /\ call[1].status = "NotFound"
    /\ OwnsMessage(2, call[1].arg)
    /\ \E i \in DOMAIN categories : categories[i].user_id = 1

HasNoCategory(u) == ~\E i \in DOMAIN categories : categories[i].user_id = u

\* C7: for a caller without categories suggest_categories_ai returns the empty
\* list for an existing message, invokes no gateway and writes no AiRequest or
\* AiResponse, whatever categories other users have.
C7_NoCategories ==
    /\ [](\A u \in Users :
             (SuggestCall(u) /\ call[u].pc \notin {"idle", "done"}) => ~HasNoCategory(u))
    /\ [][\A u \in Users :
             (/\ call[u].pc = "idle"
              /\ SuggestCall(u)'
              /\ OwnsMessage(u, call'[u].arg)
              /\ HasNoCategory(u)) =>
                 /\ call'[u].pc = "done"
                 /\ call'[u].status = "ok"
                 /\ call'[u].value = <<>>
                 /\ AuditUnchanged]_vars

\* user 1 has no category, user 2 has one, and user 1 got the empty list
C7_Witness ==
    /\ SuggestDone(1)
    /\ call[1].status = "ok"
    /\ call[1].value = <<>>
    /\ OwnsMessage(1, call[1].arg)
    /\ HasNoCategory(1)
    /\ ~HasNoCategory(2)
    /\ invocations = <<>>

\* the response line trimmed of whitespace and leading dashes, lower-cased
Trimmed(line) == Lower(Strip(LStripDash(Strip(line))))

\* the indices of the response lines that are a lower-cased category name
ValidLines(text, cats) ==
    {i \in DOMAIN SplitLines(text) :
        \E c \in Range(cats) : Lower(c.name) = Trimmed(SplitLines(text)[i])}

\* the k-th smallest element of a set of numbers
Nth(S, k) == CHOOSE i \in S : Cardinality({j \in S : j < i}) = k - 1

\* C8: when some response line validates, suggest_categories_ai returns one
\* category per validating line, in the order of the lines: the k-th result is
\* one of the caller's categories and its lower-cased name is the k-th
\* validating line, trimmed and lower-cased; every other line is dropped.
C8_ValidatedLinesInOrder ==
    \A u \in Users :
        (SuggestAnswered(u) /\ ValidLines(call[u].text, call[u].categories) # {}) =>
            LET valid == ValidLines(call[u].text, call[u].categories)
                lines == SplitLines(call[u].text)
            IN  /\ Len(call[u].value) = Cardinality(valid)
                /\ \A k \in DOMAIN call[u].value :
                       /\ call[u].value[k] \in Range(call[u].categories)
                       /\ Lower(call[u].value[k].name) = Trimmed(lines[Nth(valid, k)])

\* two lines validated, in an order that is not the order of the category
\* list, and a line that only contains a category name was dropped
C8_Witness ==
    \E u \in Users :
        /\ SuggestAnswered(u)
        /\ Len(call[u].value) = 2
        /\ call[u].value # call[u].categories
        /\ Range(call[u].value) = Range(call[u].categories)
        /\ \E i \in DOMAIN SplitLines(call[u].text) :
               /\ i \notin ValidLines(call[u].text, call[u].categories)
               /\ \E c \in Range(call[u].categories) :
                      Contains(Trimmed(SplitLines(call[u].text)[i]), Lower(c.name))

\* C9: when no response line validates, suggest_categories_ai returns the
\* rule-based result for the same message and category list, in list order,
\* and no error; when some line validates, every result comes from a
\* validating line and the rule-based result is not what is returned.
C9_FallbackToRules ==
    \A u \in Users :
        (SuggestDone(u) /\ call[u].request_id # 0) =>
            LET valid == ValidLines(call[u].text, call[u].categories)
                lines == SplitLines(call[u].text)
            IN  /\ call[u].status = "ok"
                /\ IF valid = {}
                   THEN call[u].value = RuleResult(call[u].message, call[u].categories)
                   ELSE \A k \in DOMAIN call[u].value :
                            \E i \in valid :
                                Lower(call[u].value[k].name) = Trimmed(lines[i])

\* a networked provider answered with text of which no line validated, and
\* the rules returned one of the caller's two categories
C9_Witness ==
    \E u \in Users :
        /\ SuggestDone(u)
        /\ call[u].request_id # 0
        /\ provider # "mock"
        /\ call[u].text # <<>>
        /\ ValidLines(call[u].text, call[u].categories) = {}
        /\ Len(call[u].categories) = 2
        /\ Len(call[u].value) = 1

ClassifierDone(u) == call[u].pc = "done" /\ call[u].op = "classifier_suggest"

====
